---- MODULE Spec2Model ----
(***************************************************************************)
(* Filter engine of the log analysis tool: LogAnalyzer.analyze applied to  *)
(* one table, and the multi-file query of EONParserGUI.run_query that      *)
(* applies it to every loaded table and concatenates the survivors.        *)
(*                                                                         *)
(* A table (pandas DataFrame) is a record                                  *)
(*   [columns : set of names, dtype : name -> dtype, rows : Seq(row)]      *)
(* and a row is a function from the table's columns to cell values.        *)
(* Strings are sequences of one-character strings so that substring and    *)
(* regular-expression search can be computed.                              *)
(***************************************************************************)
EXTENDS Integers, Sequences, FiniteSets, TLC

VARIABLES
    log_data,        \* EONParserGUI.log_data: the loaded tables, in dict order
    search_params,   \* the filter specification of the request
    pc,              \* position of the request
    result,          \* outcome of analyze(log_data[1].frame, search_params)
    again,           \* outcome of analyze(result, search_params)
    permuted,        \* outcome of the filter blocks applied in another order
    file_index,      \* analyze_data_in_thread: position of its loop over log_data
    all_results,     \* analyze_data_in_thread: the filtered tables kept so far
    combined,        \* the table analyze_data_in_thread returned
    summary,         \* the summary analyze_data_in_thread or generate_summary returned
    current_results, \* the result table handed to generate_summary
    count_request,   \* search_params.get("count_request", True)
    reordered,       \* generate_summary on the same rows in another order
    viz_results,     \* the result table handed to the visualizer, by its shape
    max_points,      \* optimize_dataframe_for_visualization: its threshold
    viz_type,        \* generate_visualization: the kind asked for
    optimized,       \* rows optimize_dataframe_for_visualization returned
    visualization,   \* what generate_visualization returned
    query,           \* the text of the query, in tokens
    now,             \* datetime.now(utc) in _extract_time_range
    time_info,       \* what _extract_time_range returned
    file,            \* the file handed to parse_log_file
    parsed,          \* what parse_log_file returned
    it_used,         \* the dict iterator of the worker: the size it expects
    started_with,    \* the tables that were loaded when run_query was called
    analyzed,        \* the tables the worker handed to analyze
    ui_events,       \* handlers the UI thread has run during the query
    current_summary, \* EONParserGUI.current_summary
    df_columns,      \* the columns handed to _standardize_column_names
    log_format,      \* the format handed to _standardize_column_names
    renamed,         \* the columns _standardize_column_names leaves
    threads,         \* every WorkerThread made by start_thread, in the order made
    active_threads,  \* EONParserGUI.active_threads: positions in threads
    window,          \* the main window: open, asking for the exit, closed
    clear_state      \* whether clear_logs was confirmed, and a query started since

\* the variables by the part of the program they belong to
queryVars == <<log_data, result, again, permuted, file_index, all_results, combined>>
summaryVars == <<current_results, count_request, reordered>>
vizVars == <<viz_results, max_points, viz_type, optimized, visualization>>
nlpVars == <<query, now, time_info>>
parserVars == <<file, parsed>>
guiVars == <<it_used, started_with, analyzed, ui_events, current_summary>>
renameVars == <<df_columns, log_format, renamed>>

\* the variables of the specifications that follow the concurrent query
threadVars == <<threads, active_threads, window, clear_state>>
moreVars == <<renameVars, threadVars>>

\* the variables that only the later specifications change
laterVars == <<summaryVars, vizVars, nlpVars, parserVars, guiVars, moreVars>>

\* the variables the specification of generate_summary leaves alone
outsideSummary == <<queryVars, vizVars, nlpVars, parserVars, guiVars, moreVars>>

\* the variables the specification of the visualizer leaves alone
outsideViz == <<queryVars, summaryVars, search_params, nlpVars, parserVars, guiVars, moreVars>>

\* the variables process_query leaves alone
outsideNlp == <<queryVars, summary, summaryVars, vizVars, parserVars, guiVars, moreVars>>

vars == <<log_data, search_params, pc, result, again, permuted,
          file_index, all_results, combined, summary, laterVars>>

----------------------------------------------------------------------------
(* Bounds of the model *)

MaxRows == 3      \* rows per table
MaxFiles == 3     \* loaded tables per query
MaxPreds == 2     \* predicates set in one filter specification

----------------------------------------------------------------------------
(* Values *)

\* Python None (a parameter that is not set)
None == [k |-> "none", s |-> <<>>, n |-> 0, l |-> <<>>]
\* a missing cell: NaN in object/float columns, NaT in datetime columns
Null == [k |-> "null", s |-> <<>>, n |-> 0, l |-> <<>>]
Str(s) == [k |-> "str", s |-> s, n |-> 0, l |-> <<>>]
IntV(n) == [k |-> "int", s |-> <<>>, n |-> n, l |-> <<>>]
FloatV(n) == [k |-> "float", s |-> <<>>, n |-> n, l |-> <<>>]
\* a UTC-aware timestamp, n units after the epoch of the model
Time(n) == [k |-> "time", s |-> <<>>, n |-> n, l |-> <<>>]
\* a Python list of scalar values
List(l) == [k |-> "list", s |-> <<>>, n |-> 0, l |-> l]

Chars == {"a", "A", "b", "B", "n", "N", "t", "T", "[", ".",
          "0", "1", "2", "3", "4", "5", "6", "7", "8", "9"}

\* str.upper() on one character
UpperChar(c) ==
    CASE c = "a" -> "A"
      [] c = "b" -> "B"
      [] c = "n" -> "N"
      [] c = "t" -> "T"
      [] OTHER -> c

\* str.upper()
Upper(s) == [i \in 1..Len(s) |-> UpperChar(s[i])]

\* one decimal digit
DigitChar(d) ==
    CASE d = 0 -> "0" [] d = 1 -> "1" [] d = 2 -> "2" [] d = 3 -> "3" [] d = 4 -> "4"
      [] d = 5 -> "5" [] d = 6 -> "6" [] d = 7 -> "7" [] d = 8 -> "8" [] OTHER -> "9"

\* decimal digits of a natural number
RECURSIVE Digits(_)
Digits(n) ==
    IF n < 10 THEN <<DigitChar(n)>>
    ELSE Digits(n \div 10) \o <<DigitChar(n % 10)>>

\* str(x) of a scalar, and Series.astype(str) on one cell
ToStr(v) ==
    CASE v.k = "str" -> v.s
      [] v.k = "int" -> Digits(v.n)
      [] v.k = "float" -> Digits(v.n) \o <<".", "0">>
      [] v.k = "null" -> <<"n", "a", "n">>
      [] v.k = "time" -> <<"t">> \o Digits(v.n)
      [] OTHER -> <<"N", "o", "n", "e">>

\* Python truthiness of a parameter value: None and "" are false
Truthy(v) ==
    CASE v.k = "none" -> FALSE
      [] v.k = "str" -> Len(v.s) > 0
      [] v.k = "int" -> v.n # 0
      [] v.k = "float" -> v.n # 0
      [] v.k = "list" -> Len(v.l) > 0
      [] OTHER -> TRUE

----------------------------------------------------------------------------
(* String search: re and pandas Series.str.contains *)

\* re.compile(pat) succeeds: in this alphabet the only malformed pattern is
\* an unterminated character set
ValidRegex(pat) == \A i \in 1..Len(pat) : pat[i] # "["

\* one pattern character against one subject character
CharMatch(pc_, c, ignorecase) ==
    \/ pc_ = "."
    \/ IF ignorecase THEN UpperChar(pc_) = UpperChar(c) ELSE pc_ = c

\* pattern.search(s) is not None, for a valid pattern
RegexSearch(pat, s, ignorecase) ==
    \E i \in 0..(Len(s) - Len(pat)) :
        \A j \in 1..Len(pat) : CharMatch(pat[j], s[i + j], ignorecase)

\* pat in s
IsSubstring(pat, s) ==
    \E i \in 0..(Len(s) - Len(pat)) :
        \A j \in 1..Len(pat) : pat[j] = s[i + j]

\* the regex=False branch of str.contains: pat in x, or
\* pat.upper() in x.upper() when case is False
LiteralContains(pat, s, case) ==
    IF case THEN IsSubstring(pat, s) ELSE IsSubstring(Upper(pat), Upper(s))

\* Series.str.contains(pat, case=case, regex=regex) raises: with regex=True
\* pandas compiles the pattern itself
StrContainsRaises(pat, regex) == regex /\ ~ValidRegex(pat)

\* Series.str.contains(pat, case=case, regex=regex) on one cell
StrContains(pat, s, case, regex) ==
    IF regex THEN RegexSearch(pat, s, ~case) ELSE LiteralContains(pat, s, case)

----------------------------------------------------------------------------
(* Tables *)

\* pd.DataFrame(): no columns, no rows
EmptyFrame == [columns |-> {}, dtype |-> [c \in {} |-> "object"], rows |-> <<>>]

\* DataFrame.empty: an axis of length zero
IsEmpty(data) == data.columns = {} \/ Len(data.rows) = 0

\* current_data[mask]: the rows for which Keep holds, in their order
Mask(data, Keep(_)) == [data EXCEPT !.rows = SelectSeq(data.rows, Keep)]

\* DataFrame.head(n), n >= 0
HeadRows(data, n) ==
    [data EXCEPT !.rows = SubSeq(data.rows, 1, IF n < Len(data.rows) THEN n ELSE Len(data.rows))]

\* outcome of a call: a returned frame, or an exception that leaves the call
Returned(data) == [raised |-> FALSE, frame |-> data]
Raised == [raised |-> TRUE, frame |-> EmptyFrame]

\* the dtypes select_dtypes(include=['object', 'string']) keeps
StringColumns(data) == {c \in data.columns : data.dtype[c] = "object"}

----------------------------------------------------------------------------
(* LogAnalyzer.analyze, one definition per filter block *)

\* the first of 'timestamp', 'datetime' that is a column; "" when neither is
TimeColumn(data) ==
    IF "timestamp" \in data.columns THEN "timestamp"
    ELSE IF "datetime" \in data.columns THEN "datetime"
    ELSE ""

\* pd.to_datetime(cell, errors='coerce') without utc: a string that spells a
\* time becomes that time, anything else NaT
ToDatetime(v) ==
    IF v.k = "time" THEN v
    ELSE IF v.k = "str" /\ Len(v.s) = 2 /\ v.s[1] = "t" /\ v.s[2] \in {"0", "1", "2"}
         THEN Time(CHOOSE n \in 0..2 : Digits(n) = <<v.s[2]>>)
         ELSE Null

\* current_data[time_column] = pd.to_datetime(...): the column becomes a
\* tz-naive datetime column
ConvertTimeColumn(data, tc) ==
    [data EXCEPT !.dtype = [data.dtype EXCEPT ![tc] = "datetime64[ns]"],
                 !.rows = [i \in 1..Len(data.rows) |->
                              [data.rows[i] EXCEPT ![tc] = ToDatetime(data.rows[i][tc])]]]

\* variant: the start of the range is exclusive
MutNotBefore_Exclusive(cell, start) == cell.k = "time" /\ cell.n > start.n

\* column >= start_time on one cell; NaT compares False
NotBefore(cell, start) == cell.k = "time" /\ cell.n >= start.n

\* column <= end_time on one cell; NaT compares False
NotAfter(cell, end) == cell.k = "time" /\ cell.n <= end.n

\* --- Time Filtering ---
\* start and end of the request are UTC-aware, so comparing them with a
\* tz-naive column raises TypeError, which the block catches
TimeFilter(data, p) ==
    LET tc == TimeColumn(data) IN
    IF tc # "" /\ p.time_range.k = "dict"
    THEN LET conv == IF data.dtype[tc] \notin {"datetime64[ns, UTC]", "datetime64[ns]"}
                     THEN ConvertTimeColumn(data, tc) ELSE data
             start == p.time_range.start
             end == p.time_range.end
             typeError == conv.dtype[tc] # "datetime64[ns, UTC]"
             afterStart == IF start.k # "none" /\ ~typeError
                           THEN Mask(conv, LAMBDA r : NotBefore(r[tc], start))
                           ELSE conv
             afterEnd == IF end.k # "none" /\ ~typeError
                         THEN Mask(afterStart, LAMBDA r : NotAfter(r[tc], end))
                         ELSE afterStart
         IN Returned(afterEnd)
    ELSE Returned(data)

\* [str(s) for s in values]
StrList(l) == {ToStr(l[i]) : i \in 1..Len(l)}

\* [str(a).upper() for a in values]
UpperStrList(l) == {Upper(ToStr(l[i])) : i \in 1..Len(l)}

\* --- Severity Filtering ---
SeverityFilter(data, p) ==
    IF p.severity.k # "none" /\ "severity" \in data.columns
    THEN IF p.severity.k = "list"
         THEN Returned(Mask(data, LAMBDA r : ToStr(r["severity"]) \in StrList(p.severity.l)))
         ELSE Returned(Mask(data, LAMBDA r : ToStr(r["severity"]) = ToStr(p.severity)))
    ELSE Returned(data)

\* variant: a list is served value by value, the matches of the first value
\* before the matches of the second
MutUpperEquals_PerValue(data, col, value) ==
    IF value.k = "list"
    THEN [data EXCEPT !.rows =
            SelectSeq(data.rows, LAMBDA r : Upper(ToStr(r[col])) = Upper(ToStr(value.l[1])))
            \o SelectSeq(data.rows, LAMBDA r :
                    /\ Upper(ToStr(r[col])) # Upper(ToStr(value.l[1]))
                    /\ \E i \in 2..Len(value.l) : Upper(ToStr(r[col])) = Upper(ToStr(value.l[i])))]
    ELSE Mask(data, LAMBDA r : Upper(ToStr(r[col])) = Upper(ToStr(value)))

\* the action and protocol blocks: upper-cased equality or membership
UpperEquals(data, col, value) ==
    IF value.k = "list"
    THEN Mask(data, LAMBDA r : Upper(ToStr(r[col])) \in UpperStrList(value.l))
    ELSE Mask(data, LAMBDA r : Upper(ToStr(r[col])) = Upper(ToStr(value)))

\* --- Action Filtering (Case Insensitive) ---
ActionFilter(data, p) ==
    IF p.action.k # "none" /\ "action" \in data.columns
    THEN Returned(UpperEquals(data, "action", p.action))
    ELSE Returned(data)

\* --- Protocol Filtering (Case Insensitive) ---
ProtocolFilter(data, p) ==
    IF p.protocol.k # "none" /\ "protocol" \in data.columns
    THEN Returned(UpperEquals(data, "protocol", p.protocol))
    ELSE Returned(data)

\* the body shared by the message_id, hostname, src_ip, dst_ip and
\* message_text blocks: regex search, the except re.error branch (a
\* str.contains call that leaves regex at its default, True), or a plain
\* substring test
ContainsFilter(data, col, pat, p) ==
    IF p.use_regex
    THEN IF ValidRegex(pat)
         THEN Returned(Mask(data, LAMBDA r : RegexSearch(pat, ToStr(r[col]), ~p.case_sensitive)))
         ELSE IF StrContainsRaises(pat, TRUE)
              THEN Raised
              ELSE Returned(Mask(data, LAMBDA r : StrContains(pat, ToStr(r[col]), p.case_sensitive, TRUE)))
    ELSE Returned(Mask(data, LAMBDA r : StrContains(pat, ToStr(r[col]), p.case_sensitive, FALSE)))

\* --- Message ID Filtering ---
MessageIdFilter(data, p) ==
    IF Truthy(p.message_id) /\ "message_id" \in data.columns
    THEN ContainsFilter(data, "message_id", p.message_id.s, p)
    ELSE Returned(data)

\* variant: a table without the column matches nothing
MutHostnameFilter_AbsentIsEmpty(data, p) ==
    IF Truthy(p.hostname)
    THEN IF "hostname" \in data.columns
         THEN ContainsFilter(data, "hostname", p.hostname.s, p)
         ELSE Returned([data EXCEPT !.rows = <<>>])
    ELSE Returned(data)

\* --- Hostname Filtering ---
HostnameFilter(data, p) ==
    IF Truthy(p.hostname) /\ "hostname" \in data.columns
    THEN ContainsFilter(data, "hostname", p.hostname.s, p)
    ELSE Returned(data)

\* --- Source IP Address Filtering ---
SrcIpFilter(data, p) ==
    IF Truthy(p.src_ip) /\ "src_ip" \in data.columns
    THEN ContainsFilter(data, "src_ip", p.src_ip.s, p)
    ELSE Returned(data)

\* --- Destination IP Address Filtering ---
DstIpFilter(data, p) ==
    IF Truthy(p.dst_ip) /\ "dst_ip" \in data.columns
    THEN ContainsFilter(data, "dst_ip", p.dst_ip.s, p)
    ELSE Returned(data)

\* --- Port Filtering: source ---
SrcPortFilter(data, p) ==
    IF Truthy(p.src_port) /\ "src_port" \in data.columns
    THEN Returned(Mask(data, LAMBDA r : ToStr(r["src_port"]) = ToStr(p.src_port)))
    ELSE Returned(data)

\* --- Port Filtering: destination ---
DstPortFilter(data, p) ==
    IF Truthy(p.dst_port) /\ "dst_port" \in data.columns
    THEN Returned(Mask(data, LAMBDA r : ToStr(r["dst_port"]) = ToStr(p.dst_port)))
    ELSE Returned(data)

\* --- Text Search (in message field) ---
MessageTextFilter(data, p) ==
    IF Truthy(p.message_text) /\ "message" \in data.columns
    THEN ContainsFilter(data, "message", p.message_text.s, p)
    ELSE Returned(data)

\* variant: the full-text block truncates to results_limit itself
MutFullTextFilter_Truncates(data, p) ==
    IF Truthy(p.full_text)
    THEN LET kept == Mask(data, LAMBDA r :
                        \E c \in StringColumns(data) :
                            IF p.use_regex
                            THEN RegexSearch(p.full_text.s, ToStr(r[c]), ~p.case_sensitive)
                            ELSE LiteralContains(p.full_text.s, ToStr(r[c]), p.case_sensitive))
         IN IF p.use_regex /\ ~ValidRegex(p.full_text.s) /\ StringColumns(data) # {}
            THEN Raised
            ELSE Returned(IF p.results_limit.k # "none"
                          THEN HeadRows(kept, p.results_limit.n) ELSE kept)
    ELSE Returned(data)

\* --- Full Text Search (across all string columns) ---
\* text_mask starts all False and is OR-ed over the string columns; the
\* except re.error branch calls str.contains once per string column
FullTextFilter(data, p) ==
    IF Truthy(p.full_text)
    THEN LET pat == p.full_text.s
             cols == StringColumns(data)
         IN IF p.use_regex
            THEN IF ValidRegex(pat)
                 THEN Returned(Mask(data, LAMBDA r :
                         \E c \in cols : RegexSearch(pat, ToStr(r[c]), ~p.case_sensitive)))
                 ELSE IF cols # {} /\ StrContainsRaises(pat, TRUE)
                      THEN Raised
                      ELSE Returned(Mask(data, LAMBDA r :
                              \E c \in cols : StrContains(pat, ToStr(r[c]), p.case_sensitive, TRUE)))
            ELSE Returned(Mask(data, LAMBDA r :
                    \E c \in cols : StrContains(pat, ToStr(r[c]), p.case_sensitive, FALSE)))
    ELSE Returned(data)

\* variant: over the limit, the first row is dropped instead of the tail
MutResultsLimit_DropFirst(data, p) ==
    IF p.results_limit.k # "none" /\ Len(data.rows) > p.results_limit.n
    THEN [data EXCEPT !.rows = Tail(data.rows)]
    ELSE data

\* Apply results limit if specified
ResultsLimit(data, p) ==
    IF p.results_limit.k # "none" /\ Len(data.rows) > p.results_limit.n
    THEN HeadRows(data, p.results_limit.n)
    ELSE data

\* one filter block, by name
ApplyFilter(name, data, p) ==
    CASE name = "time" -> TimeFilter(data, p)
      [] name = "severity" -> SeverityFilter(data, p)
      [] name = "action" -> ActionFilter(data, p)
      [] name = "protocol" -> ProtocolFilter(data, p)
      [] name = "message_id" -> MessageIdFilter(data, p)
      [] name = "hostname" -> HostnameFilter(data, p)
      [] name = "src_ip" -> SrcIpFilter(data, p)
      [] name = "dst_ip" -> DstIpFilter(data, p)
      [] name = "src_port" -> SrcPortFilter(data, p)
      [] name = "dst_port" -> DstPortFilter(data, p)
      [] name = "message_text" -> MessageTextFilter(data, p)
      [] name = "full_text" -> FullTextFilter(data, p)

\* the order in which analyze runs its filter blocks
FilterOrder ==
    <<"time", "severity", "action", "protocol", "message_id", "hostname",
      "src_ip", "dst_ip", "src_port", "dst_port", "message_text", "full_text">>

\* the filter blocks run one after the other on current_data; an exception
\* in a block leaves analyze at once
RECURSIVE RunFilters(_, _, _)
RunFilters(order, data, p) ==
    IF order = <<>> THEN Returned(data)
    ELSE LET step == ApplyFilter(order[1], data, p) IN
         IF step.raised THEN Raised ELSE RunFilters(Tail(order), step.frame, p)

\* variant: results_limit applied to the table before the filter blocks
MutAnalyzeInOrder_LimitFirst(order, log, p) ==
    IF IsEmpty(log) THEN Returned(EmptyFrame)
    ELSE RunFilters(order, ResultsLimit(log, p), p)

\* the filter blocks in a given order, results_limit applied last
AnalyzeInOrder(order, log, p) ==
    IF IsEmpty(log) THEN Returned(EmptyFrame)
    ELSE LET filtered == RunFilters(order, log, p) IN
         IF filtered.raised THEN Raised
         ELSE Returned(ResultsLimit(filtered.frame, p))

\* LogAnalyzer.analyze(log_data, search_params)
Analyze(log, p) == AnalyzeInOrder(FilterOrder, log, p)

----------------------------------------------------------------------------
(* LogAnalyzer.generate_summary *)

\* entries of value_counts().head(10) kept in the top_* tables
TopCount == 10

\* A time is a number of minutes.
MinutesPerHour == 60
HoursPerDay == 24
DaysPerWeek == 7
DaysPerMonth == 30

\* a quotient, kept as numerator and denominator
Ratio(num, den) == [num |-> num, den |-> den]

\* A summary (a dict) is a record with every field the code may set and
\* the set of the keys that are present; the field of an absent key has the
\* value it has here.  tables holds the dict-valued entries, each a set of
\* <<key, count>> pairs (protocol_by_action: <<protocol, action, count>>).
TableKeys ==
    {"action_distribution", "protocol_distribution", "severity_distribution",
     "hostname_distribution", "message_id_distribution",
     "top_src_ip", "top_dst_ip", "top_src_port", "top_dst_port",
     "daily_counts", "hourly_pattern", "weekday_distribution", "protocol_by_action"}

EmptySummary ==
    [keys |-> {}, total_logs |-> 0,
     time_range |-> [k |-> "none", start |-> None, end |-> None],
     query_params |-> {}, viz_type |-> "",
     earliest_log |-> Null, latest_log |-> Null, time_span_hours |-> Ratio(0, 1),
     tables |-> [t \in TableKeys |-> {}],
     daily_min |-> 0, daily_max |-> 0, daily_avg |-> Ratio(0, 1)]

\* the largest and the smallest of a non-empty set of numbers
MaxOf(S) == CHOOSE x \in S : \A y \in S : y <= x
MinOf(S) == CHOOSE x \in S : \A y \in S : x <= y

\* Series.isna().all(): true of a column without rows
AllNa(data, col) == \A i \in 1..Len(data.rows) : data.rows[i][col].k = "null"

\* results[col].astype(str)
AsStrings(data, col) == [i \in 1..Len(data.rows) |-> ToStr(data.rows[i][col])]

\* the distinct elements of a sequence in the order they first occur
RECURSIVE FirstSeen(_)
FirstSeen(seq) ==
    IF seq = <<>> THEN <<>>
    ELSE <<Head(seq)>> \o FirstSeen(SelectSeq(Tail(seq), LAMBDA x : x # Head(seq)))

CountOf(x, seq) == Len(SelectSeq(seq, LAMBDA y : y = x))

\* sort_values(ascending=False) on the counts: entries <<key, count>> by
\* falling count, entries of one count in the order they had
RECURSIVE SortByCount(_)
SortByCount(entries) ==
    IF entries = <<>> THEN <<>>
    ELSE LET top == MaxOf({entries[i][2] : i \in 1..Len(entries)})
             first == CHOOSE i \in 1..Len(entries) :
                         /\ entries[i][2] = top
                         /\ \A j \in 1..(i - 1) : entries[j][2] # top
         IN <<entries[first]>>
            \o SortByCount([i \in 1..(Len(entries) - 1) |->
                               IF i < first THEN entries[i] ELSE entries[i + 1]])

\* Series.value_counts(): the hash table lists the values in the order they
\* first occur, then the counts are sorted
ValueCounts(seq) ==
    LET seen == FirstSeen(seq)
    IN SortByCount([i \in 1..Len(seen) |-> <<seen[i], CountOf(seen[i], seq)>>])

\* Series.head(n) on the counts
HeadCounts(entries, n) ==
    SubSeq(entries, 1, IF n < Len(entries) THEN n ELSE Len(entries))

\* a key the filter "if k and k.strip()" drops: empty or only blanks
Blank(key) == \A i \in 1..Len(key) : key[i] = " "

\* .to_dict() and the filter on blank keys
FilteredDict(entries) ==
    {entries[i] : i \in {j \in 1..Len(entries) : ~Blank(entries[j][1])}}

\* the key f"{col}_distribution"
DistributionKey(col) ==
    CASE col = "action" -> "action_distribution"
      [] col = "protocol" -> "protocol_distribution"
      [] col = "severity" -> "severity_distribution"
      [] col = "hostname" -> "hostname_distribution"
      [] col = "message_id" -> "message_id_distribution"

\* the key f"top_{col}"
TopKey(col) ==
    CASE col = "src_ip" -> "top_src_ip"
      [] col = "dst_ip" -> "top_dst_ip"
      [] col = "src_port" -> "top_src_port"
      [] col = "dst_port" -> "top_dst_port"

DistributionColumns == {"action", "protocol", "severity", "hostname", "message_id"}
TopColumns == {"src_ip", "dst_ip", "src_port", "dst_port"}

\* one pass of the distribution loop: the dict, empty when the entry is not set
Distribution(results, col) ==
    IF col \in results.columns /\ ~AllNa(results, col)
    THEN FilteredDict(ValueCounts(AsStrings(results, col)))
    ELSE {}

\* one pass of the IP and port loops
TopValues(results, col) ==
    IF col \in results.columns /\ ~AllNa(results, col)
    THEN FilteredDict(HeadCounts(ValueCounts(AsStrings(results, col)), TopCount))
    ELSE {}

\* dt.date, dt.hour and dt.day_name() of a time
DayOf(n) == n \div (MinutesPerHour * HoursPerDay)
HourOf(n) == (n \div MinutesPerHour) % HoursPerDay
WeekdayOf(n) == DayOf(n) % DaysPerWeek

\* str(date), and the name of a weekday
DateStr(d) == <<"d">> \o Digits(d)
DayName(w) == <<"w">> \o Digits(w)

\* str(hour): dt.hour is a float column when the time column holds NaT
HourStr(h, withNaT) == IF withNaT THEN Digits(h) \o <<".", "0">> ELSE Digits(h)

\* groupby(key).size() as a dict: str(key) -> rows with that key
GroupSizes(times, Key(_)) ==
    {<<k, CountOf(k, [i \in 1..Len(times) |-> Key(times[i])])>> :
        k \in {Key(times[i]) : i \in 1..Len(times)}}

\* pd.crosstab(protocol, action): rows holding both values, counted per pair
\* of a protocol and an action that occur in such rows
CrossTable(results) ==
    LET both == SelectSeq(results.rows, LAMBDA r :
                    r["protocol"].k # "null" /\ r["action"].k # "null")
        protocols == {ToStr(both[i]["protocol"]) : i \in 1..Len(both)}
        actions == {ToStr(both[i]["action"]) : i \in 1..Len(both)}
    IN {<<pr, a, Len(SelectSeq(both, LAMBDA r :
                    ToStr(r["protocol"]) = pr /\ ToStr(r["action"]) = a))>> :
            pr \in protocols, a \in actions}

\* the entries of search_params copied into query_params
QueryParams(p) ==
    {<<f, p[f]>> :
        f \in {g \in DOMAIN p \ {"time_range", "results_limit", "case_sensitive", "use_regex"} :
                  p[g] # None}}

\* generate_summary(results, search_params); counts is
\* search_params.get("count_request", True)
GenerateSummary(results, p, counts) ==
    LET tc == TimeColumn(results)
        hasTime == tc # "" /\ ~AllNa(results, tc)
        conv == IF hasTime /\ results.dtype[tc] \notin {"datetime64[ns, UTC]", "datetime64[ns]"}
                THEN ConvertTimeColumn(results, tc) ELSE results
        cells == IF hasTime THEN [i \in 1..Len(conv.rows) |-> conv.rows[i][tc]] ELSE <<>>
        valid == SelectSeq(cells, LAMBDA c : c.k = "time")
        times == [i \in 1..Len(valid) |-> valid[i].n]
        withNaT == Len(valid) < Len(cells)
        known == Len(times) > 0
        earliest == IF known THEN MinOf({times[i] : i \in 1..Len(times)}) ELSE 0
        latest == IF known THEN MaxOf({times[i] : i \in 1..Len(times)}) ELSE 0
        counting == counts /\ hasTime
        daily == IF counting THEN GroupSizes(times, LAMBDA n : DateStr(DayOf(n))) ELSE {}
        hourly == IF counting THEN GroupSizes(times, LAMBDA n : HourStr(HourOf(n), withNaT)) ELSE {}
        weekday == IF counting THEN GroupSizes(times, LAMBDA n : DayName(WeekdayOf(n))) ELSE {}
        crossed == "protocol" \in results.columns /\ "action" \in results.columns
        table == [t \in TableKeys |->
                    CASE t \in {DistributionKey(c) : c \in DistributionColumns} ->
                            Distribution(conv, CHOOSE c \in DistributionColumns : DistributionKey(c) = t)
                      [] t \in {TopKey(c) : c \in TopColumns} ->
                            TopValues(conv, CHOOSE c \in TopColumns : TopKey(c) = t)
                      [] t = "daily_counts" -> daily
                      [] t = "hourly_pattern" -> hourly
                      [] t = "weekday_distribution" -> weekday
                      [] OTHER -> IF crossed THEN CrossTable(conv) ELSE {}]
    IN [keys |-> {"total_logs", "time_range", "query_params", "viz_type"}
                 \cup (IF hasTime THEN {"earliest_log", "latest_log", "time_span_hours"} ELSE {})
                 \cup {DistributionKey(c) : c \in {d \in DistributionColumns : Distribution(conv, d) # {}}}
                 \cup {TopKey(c) : c \in {d \in TopColumns : TopValues(conv, d) # {}}}
                 \cup (IF counting
                       THEN {"daily_counts", "hourly_pattern", "weekday_distribution",
                             "daily_min", "daily_max", "daily_avg"}
                       ELSE {})
                 \cup (IF crossed THEN {"protocol_by_action"} ELSE {}),
        total_logs |-> Len(results.rows),
        time_range |-> p.time_range,
        query_params |-> QueryParams(p),
        viz_type |-> "auto",
        earliest_log |-> IF known THEN Time(earliest) ELSE Null,
        latest_log |-> IF known THEN Time(latest) ELSE Null,
        time_span_hours |-> IF known THEN Ratio(latest - earliest, MinutesPerHour) ELSE Ratio(0, 1),
        tables |-> table,
        daily_min |-> IF daily # {} THEN MinOf({e[2] : e \in daily}) ELSE 0,
        daily_max |-> IF daily # {} THEN MaxOf({e[2] : e \in daily}) ELSE 0,
        daily_avg |-> IF daily # {} THEN Ratio(Len(times), Cardinality(daily)) ELSE Ratio(0, 1)]

----------------------------------------------------------------------------
(* The requests and tables the model is run on *)

\* the fields of a filter specification that select rows
Fields ==
    {"time_range", "severity", "action", "protocol", "message_id", "hostname",
     "src_ip", "dst_ip", "src_port", "dst_port", "message_text", "full_text",
     "keywords", "log_type"}

\* the fields whose value is a search pattern
PatternFields == {"message_id", "hostname", "src_ip", "dst_ip", "message_text", "full_text"}

\* the column a field is compared with
ColumnOf(f) ==
    CASE f = "time_range" -> "timestamp"
      [] f \in {"message_text", "full_text", "keywords"} -> "message"
      [] OTHER -> f

NoTimeRange == [k |-> "none", start |-> None, end |-> None]
TimeRange(start, end) == [k |-> "dict", start |-> start, end |-> end]

\* process_query's and build_search_params' dictionary with nothing selected
DefaultParams ==
    [time_range |-> NoTimeRange, severity |-> None, action |-> None,
     protocol |-> None, message_id |-> None, hostname |-> None, src_ip |-> None,
     dst_ip |-> None, src_port |-> None, dst_port |-> None, message_text |-> None,
     full_text |-> None, keywords |-> List(<<>>), log_type |-> None,
     use_regex |-> FALSE, case_sensitive |-> FALSE, results_limit |-> None]

\* the values a field takes when it is set
FieldValues(f) ==
    CASE f = "time_range" ->
            {TimeRange(None, None), TimeRange(Time(2), None), TimeRange(None, Time(1)),
             TimeRange(Time(1), Time(2)), TimeRange(Time(2), Time(2))}
      [] f = "severity" -> {IntV(1), FloatV(2), List(<<IntV(1), IntV(2)>>)}
      [] f \in {"action", "protocol"} ->
            {Str(<<"a">>), Str(<<"B">>), List(<<Str(<<"a">>), Str(<<"b">>)>>)}
      [] f \in {"src_port", "dst_port"} -> {Str(<<"1">>), IntV(2)}
      [] f = "keywords" -> {List(<<Str(<<"b">>)>>), List(<<Str(<<"b">>), Str(<<"t">>)>>)}
      [] f = "log_type" -> {Str(<<"a">>), Str(<<"b">>)}
      [] OTHER -> {Str(<<"a">>), Str(<<"[">>), Str(<<".">>)}

\* the cells a column holds
CellValues(c) ==
    CASE c = "timestamp" -> {Null, Time(1), Time(2)}
      [] c \in {"severity", "src_port", "dst_port"} -> {Null, IntV(1), IntV(2)}
      [] c \in {"action", "protocol", "log_type"} -> {Str(<<"a">>), Str(<<"A">>), Str(<<"b">>)}
      [] c = "source_file" -> {Str(<<"0">>)}
      [] OTHER -> {Null, Str(<<"a", "b">>), Str(<<"A", "[">>)}

\* read_csv and parse_log_file: the dtype of a column, given its cells
DtypeOf(c, cells) ==
    CASE c = "timestamp" -> "datetime64[ns, UTC]"
      [] c \in {"severity", "src_port", "dst_port"} ->
            IF Null \in cells THEN "float64" ELSE "int64"
      [] OTHER -> "object"

\* a numeric column that holds NaN holds floats
CellAs(dtype, v) == IF dtype = "float64" /\ v.k = "int" THEN FloatV(v.n) ELSE v

\* the table parse_log_file returns for rows over the given columns
MakeTable(cols, rows) ==
    LET dt == [c \in cols |-> DtypeOf(c, {rows[i][c] : i \in 1..Len(rows)})] IN
    [columns |-> cols, dtype |-> dt,
     rows |-> [i \in 1..Len(rows) |-> [c \in cols |-> CellAs(dt[c], rows[i][c])]]]

\* sequences over S of length 1..n
SeqsUpTo(S, n) == UNION {[1..k -> S] : k \in 1..n}

\* the cells of a column in the tables of a request that sets several
\* fields: one per outcome of the comparisons
FewCellValues(c) ==
    CASE c = "timestamp" -> {Time(1), Time(2)}
      [] c \in {"severity", "src_port", "dst_port"} -> {IntV(1), IntV(2)}
      [] c \in {"action", "protocol", "log_type"} -> {Str(<<"A">>), Str(<<"b">>)}
      [] c = "source_file" -> {Str(<<"0">>)}
      [] OTHER -> {Str(<<"a", "b">>), Str(<<"A", "[">>)}

Cells(c, few) == IF few THEN FewCellValues(c) ELSE CellValues(c)

\* the rows over a set of columns
RowsOver(cols, few) ==
    {r \in [cols -> UNION {Cells(c, few) : c \in cols}] : \A c \in cols : r[c] \in Cells(c, few)}

\* the non-empty tables with the given columns; the tables of a request
\* that sets several fields are one row shorter
TablesWith(cols, few) ==
    {MakeTable(cols, rows) :
        rows \in SeqsUpTo(RowsOver(cols, few), IF few THEN MaxRows - 1 ELSE MaxRows)}

\* the tables whose columns are source_file and some of the given columns
TablesOver(cols, few) ==
    UNION {TablesWith(cs \cup {"source_file"}, few) : cs \in SUBSET cols}

\* the fields analyze has a filter block for
FilterFields == Fields \ {"keywords", "log_type"}

\* the sets of fields one request sets: any one field, or several of the
\* fields that have a filter block
FocusSets ==
    {F \in SUBSET Fields : Cardinality(F) <= 1}
        \cup {F \in SUBSET FilterFields : Cardinality(F) <= MaxPreds}

\* results_limit: not set (the form's "All"), or a number below the table size
LimitValues == {None} \cup {IntV(n) : n \in 1..(MaxRows - 1)}

\* the requests that set exactly the fields of F
ParamsOver(F) ==
    LET choices == {ch \in [F -> UNION {FieldValues(f) : f \in F}] :
                       \A f \in F : ch[f] \in FieldValues(f)}
        flags == IF F \cap PatternFields = {} THEN {FALSE} ELSE BOOLEAN
    IN {[key \in DOMAIN DefaultParams |->
            CASE key \in F -> ch[key]
              [] key = "use_regex" -> re
              [] key = "case_sensitive" -> cs
              [] key = "results_limit" -> lim
              [] OTHER -> DefaultParams[key]] :
          ch \in choices, re \in flags, cs \in flags, lim \in LimitValues}

----------------------------------------------------------------------------
(* Specification of one filter request on one table *)

NotRun == Returned(EmptyFrame)

\* the variables of the summary, at rest
SummaryIdle ==
    /\ current_results = EmptyFrame
    /\ count_request = TRUE
    /\ reordered = EmptySummary

\* a visualizer result: the payload type, the chart, the rows charted and
\* the bucket width of a trend
NoVisualization == [type |-> "", chart |-> "", points |-> 0, freq |-> ""]

\* the variables of the visualizer, at rest
VizIdle ==
    /\ viz_results = [rows |-> 0, has_time |-> FALSE, has_categorical |-> FALSE,
                      low_cardinality |-> FALSE, charted |-> FALSE, sources |-> FALSE]
    /\ max_points = 0
    /\ viz_type = ""
    /\ optimized = 0
    /\ visualization = NoVisualization

\* the variables of the typed query, at rest
NlpIdle ==
    /\ query = <<>>
    /\ now = 0
    /\ time_info = [raised |-> FALSE, start |-> [n |-> 0, tz |-> ""], end |-> [n |-> 0, tz |-> ""]]

\* the variables of the parser, at rest
ParserIdle ==
    /\ file = [exists |-> FALSE, reading |-> "ok", name |-> "", header |-> <<>>, rows |-> <<>>]
    /\ parsed = NotRun

\* the variables of the concurrent query, at rest
GuiIdle ==
    /\ it_used = 0
    /\ started_with = <<>>
    /\ analyzed = <<>>
    /\ ui_events = 0
    /\ current_summary = EmptySummary

\* the variables of the renaming, at rest
RenameIdle ==
    /\ df_columns = <<>>
    /\ log_format = ""
    /\ renamed = [raised |-> FALSE, columns |-> <<>>]

\* the variables of the window and its workers, at rest
ThreadsIdle ==
    /\ threads = <<>>
    /\ active_threads = <<>>
    /\ window = "open"
    /\ clear_state = "none"

\* the variables of the specifications that follow the concurrent query, at
\* rest
MoreIdle == RenameIdle /\ ThreadsIdle

\* the variables of the later specifications, at rest
LaterIdle == SummaryIdle /\ VizIdle /\ NlpIdle /\ ParserIdle /\ GuiIdle /\ MoreIdle

Init ==
    /\ \E F \in FocusSets :
          /\ search_params \in ParamsOver(F)
          /\ \E t \in TablesOver({ColumnOf(f) : f \in F}, Cardinality(F) > 1) :
                log_data = <<[name |-> "0", frame |-> t]>>
    /\ pc = "ready"
    /\ result = NotRun
    /\ again = NotRun
    /\ permuted = NotRun
    /\ file_index = 0
    /\ all_results = <<>>
    /\ combined = NotRun
    /\ summary = EmptySummary
    /\ LaterIdle

\* the filter names whose field is set in the request
ActiveFilters(p) ==
    {f \in FilterFields :
        IF f = "time_range" THEN p[f].k = "dict" ELSE p[f].k # "none"}

FilterName(f) == IF f = "time_range" THEN "time" ELSE f

\* the sequences that list every element of S once
OrderingsOf(S) ==
    {q \in [1..Cardinality(S) -> S] : \A i, j \in 1..Cardinality(S) : q[i] = q[j] => i = j}

\* the orders of the filter blocks tried: the set filters in any order,
\* before or after the blocks whose field is not set
OrdersOf(p) ==
    LET act == {FilterName(f) : f \in ActiveFilters(p)}
        rest == SelectSeq(FilterOrder, LAMBDA n : n \notin act)
    IN {q \o rest : q \in OrderingsOf(act)} \cup {rest \o q : q \in OrderingsOf(act)}

\* results = analyzer.analyze(df, params)
DoAnalyze ==
    /\ pc = "ready"
    /\ result' = Analyze(log_data[1].frame, search_params)
    /\ pc' = "analyzed"
    /\ UNCHANGED <<log_data, search_params, again, permuted, file_index, all_results, combined, summary, laterVars>>

\* analyzer.analyze(results, params): the same request on its own result
DoReanalyze ==
    /\ pc = "analyzed"
    /\ ~result.raised
    /\ again' = Analyze(result.frame, search_params)
    /\ pc' = "reanalyzed"
    /\ UNCHANGED <<log_data, search_params, result, permuted, file_index, all_results, combined, summary, laterVars>>

\* the same request with the filter blocks in another order
DoPermute ==
    /\ pc = "analyzed"
    /\ \E order \in OrdersOf(search_params) :
          permuted' = AnalyzeInOrder(order, log_data[1].frame, search_params)
    /\ pc' = "permuted"
    /\ UNCHANGED <<log_data, search_params, result, again, file_index, all_results, combined, summary, laterVars>>

Next == DoAnalyze \/ DoReanalyze \/ DoPermute

Spec == Init /\ [][Next]_vars


----------------------------------------------------------------------------
(* The multi-file query: analyze_data_in_thread of EONParserGUI.run_query *)

\* the dtype pd.concat gives a column: a numeric column that is missing
\* from a frame, or int64 in one and float64 in another, becomes float64
ConcatDtype(frames, c) ==
    LET having == {i \in 1..Len(frames) : c \in frames[i].columns}
        dts == {frames[i].dtype[c] : i \in having}
    IN IF Cardinality(dts) = 1 /\ having = 1..Len(frames) THEN CHOOSE d \in dts : TRUE
       ELSE IF dts \subseteq {"int64", "float64"} THEN "float64"
       ELSE IF Cardinality(dts) = 1 THEN CHOOSE d \in dts : TRUE
       ELSE "object"

\* the rows of the frames one after the other, over the union of the
\* columns; a cell of a column the frame lacks is NaN
RECURSIVE ConcatRows(_, _, _)
ConcatRows(frames, cols, dt) ==
    IF frames = <<>> THEN <<>>
    ELSE LET f == Head(frames) IN
         [i \in 1..Len(f.rows) |->
             [c \in cols |-> IF c \in f.columns THEN CellAs(dt[c], f.rows[i][c]) ELSE Null]]
         \o ConcatRows(Tail(frames), cols, dt)

\* pd.concat(all_results, ignore_index=True)
Concat(frames) ==
    LET cols == UNION {frames[i].columns : i \in 1..Len(frames)}
        dt == [c \in cols |-> ConcatDtype(frames, c)]
    IN [columns |-> cols, dtype |-> dt, rows |-> ConcatRows(frames, cols, dt)]

\* variant: a kept table goes in front of the tables kept so far
MutCollectResult_Prepend(results, outcome) ==
    IF outcome.raised THEN results
    ELSE IF ~IsEmpty(outcome.frame) THEN <<outcome.frame>> \o results
    ELSE results

\* the body of the loop over log_data: a filtered table that is not empty
\* is appended, an empty one is not, and an exception raised by analyze is
\* caught, printed and otherwise ignored
CollectResult(results, outcome) ==
    IF outcome.raised THEN results
    ELSE IF ~IsEmpty(outcome.frame) THEN Append(results, outcome.frame)
    ELSE results

\* the name of the i-th loaded file
FileChar(i) ==
    CASE i = 1 -> "0"
      [] i = 2 -> "1"
      [] i = 3 -> "2"
      [] OTHER -> "t"

\* parse_log_file: df['source_file'] = os.path.basename(file_path)
WithSource(t, name) ==
    [t EXCEPT !.rows = [i \in 1..Len(t.rows) |-> [t.rows[i] EXCEPT !["source_file"] = Str(<<name>>)]]]

InitQuery ==
    /\ \E F \in {G \in SUBSET Fields : Cardinality(G) <= 1} :
          /\ search_params \in ParamsOver(F)
          /\ \E n \in 1..MaxFiles :
                \E ts \in [1..n -> TablesOver({ColumnOf(f) : f \in F}, TRUE)] :
                    log_data = [i \in 1..n |->
                                   [name |-> FileChar(i), frame |-> WithSource(ts[i], FileChar(i))]]
    /\ pc = "ready"
    /\ result = NotRun
    /\ again = NotRun
    /\ permuted = NotRun
    /\ file_index = 0
    /\ all_results = <<>>
    /\ combined = NotRun
    /\ summary = EmptySummary
    /\ LaterIdle

\* run_query with log data loaded: the worker starts its loop
StartQuery ==
    /\ pc = "ready"
    /\ Len(log_data) > 0
    /\ pc' = "running"
    /\ file_index' = 1
    /\ all_results' = <<>>
    /\ UNCHANGED <<log_data, search_params, result, again, permuted, combined, summary, laterVars>>

\* one iteration of: for filename, df in log_data_dict.items()
AnalyzeFile ==
    /\ pc = "running"
    /\ file_index <= Len(log_data)
    /\ all_results' =
          CollectResult(all_results, Analyze(log_data[file_index].frame, search_params))
    /\ file_index' = file_index + 1
    /\ UNCHANGED <<log_data, search_params, pc, result, again, permuted, combined, summary, laterVars>>

\* after the loop: nothing kept returns an empty DataFrame and an empty
\* dict, otherwise the kept tables are concatenated and summarized
CombineResults ==
    /\ pc = "running"
    /\ file_index > Len(log_data)
    /\ combined' = IF all_results = <<>> THEN Returned(EmptyFrame)
                   ELSE Returned(Concat(all_results))
    /\ \E counting \in BOOLEAN :
          summary' = IF all_results = <<>> THEN EmptySummary
                     ELSE GenerateSummary(Concat(all_results), search_params, counting)
    /\ pc' = "done"
    /\ UNCHANGED <<log_data, search_params, result, again, permuted, file_index, all_results,
                   laterVars>>

NextQuery == StartQuery \/ AnalyzeFile \/ CombineResults

SpecQuery == InitQuery /\ [][NextQuery]_vars

----------------------------------------------------------------------------
(* Specification of generate_summary on one result table *)

DistinctValues == 11   \* distinct values of a column in the larger result tables

\* the variables of the query, at rest
QueryIdle ==
    /\ log_data = <<>>
    /\ result = NotRun
    /\ again = NotRun
    /\ permuted = NotRun
    /\ file_index = 0
    /\ all_results = <<>>
    /\ combined = NotRun

\* the columns generate_summary reads
SummaryColumns ==
    {"timestamp"} \cup DistributionColumns \cup TopColumns

\* a table with its times spread over hours and days
SpreadTimes(t) ==
    IF "timestamp" \in t.columns
    THEN [t EXCEPT !.rows = [i \in 1..Len(t.rows) |->
            [t.rows[i] EXCEPT !["timestamp"] =
                IF @.k = "time" THEN Time(@.n * 1000) ELSE @]]]
    ELSE t

\* a result table that has columns and no row: what analyze returns when
\* its filters keep nothing
NoRows(cols) == MakeTable(cols \cup {"source_file"}, <<>>)

\* a cell of a column with many distinct values
ManyCell(col, v) == IF col \in {"src_port", "dst_port"} THEN IntV(v) ELSE Str(Digits(v))

\* result tables of one IP or port column holding 1..n, each value once,
\* then extra further rows that repeat the value 1
ManyValued(col, n, extra) ==
    MakeTable({col, "source_file"},
              [i \in 1..(n + extra) |->
                  [c \in {col, "source_file"} |->
                      IF c = col THEN ManyCell(col, IF i <= n THEN i ELSE 1)
                      ELSE Str(<<"0">>)]])

\* the result tables generate_summary is run on
SummaryTables ==
    {EmptyFrame}
    \cup {NoRows(cs) : cs \in {ds \in SUBSET SummaryColumns : Cardinality(ds) <= 1}}
    \cup UNION {{SpreadTimes(t) : t \in TablesOver({c}, FALSE)} : c \in SummaryColumns}
    \cup {SpreadTimes(t) : t \in TablesOver({"timestamp", "action"}, TRUE)}
    \cup TablesOver({"protocol", "action"}, TRUE)
    \cup {ManyValued(c, n, extra) :
            c \in TopColumns, n \in (DistinctValues - 1)..DistinctValues, extra \in 0..1}

InitSummary ==
    /\ current_results \in SummaryTables
    /\ search_params \in {DefaultParams} \cup ParamsOver({"action"})
    /\ count_request \in BOOLEAN
    /\ pc = "ready"
    /\ summary = EmptySummary
    /\ reordered = EmptySummary
    /\ QueryIdle
    /\ VizIdle
    /\ NlpIdle
    /\ ParserIdle
    /\ GuiIdle
    /\ MoreIdle

\* the table after generate_summary: a time column that was not a datetime
\* column has been converted in place
SummarizedFrame(results) ==
    LET tc == TimeColumn(results) IN
    IF tc # "" /\ ~AllNa(results, tc)
          /\ results.dtype[tc] \notin {"datetime64[ns, UTC]", "datetime64[ns]"}
    THEN ConvertTimeColumn(results, tc)
    ELSE results

\* summary = analyzer.generate_summary(results, search_params)
DoSummarize ==
    /\ pc = "ready"
    /\ summary' = GenerateSummary(current_results, search_params, count_request)
    /\ current_results' = SummarizedFrame(current_results)
    /\ pc' = "summarized"
    /\ UNCHANGED <<search_params, count_request, reordered, outsideSummary>>

\* the rows of a table in another order: every order of a small table, the
\* rotations and the reversal of a larger one
Reorderings(rows) ==
    LET n == Len(rows) IN
    IF n <= MaxRows
    THEN {[i \in 1..n |-> rows[q[i]]] : q \in OrderingsOf(1..n)}
    ELSE {[i \in 1..n |-> rows[((i + k - 1) % n) + 1]] : k \in 0..(n - 1)}
         \cup {[i \in 1..n |-> rows[n + 1 - i]]}

\* generate_summary on the same rows in another order
DoSummarizeReordered ==
    /\ pc = "summarized"
    /\ \E rows \in Reorderings(current_results.rows) :
          reordered' = GenerateSummary([current_results EXCEPT !.rows = rows],
                                       search_params, count_request)
    /\ pc' = "reordered"
    /\ UNCHANGED <<search_params, count_request, summary, current_results, outsideSummary>>

NextSummary == DoSummarize \/ DoSummarizeReordered

SpecSummary == InitSummary /\ [][NextSummary]_vars

----------------------------------------------------------------------------
(* LogVisualizer                                                           *)
(* A result table is taken by its shape: the number of its rows, whether   *)
(* it has a timestamp column that is not all missing (has_time), whether   *)
(* one of action, protocol, severity, hostname is a column                 *)
(* (has_categorical), whether one of these four has values that repeat,   *)
(* fewer distinct values than rows (low_cardinality), whether a candidate  *)
(* column has two distinct values or more (charted), and whether           *)
(* source_file has two or more (sources).                                  *)

\* the default of max_points
MaxPointsDefault == 5000

\* len() of what optimize_dataframe_for_visualization returns.  The slice
\* iloc[::step] keeps the positions 0, step, 2*step, ... below n.
OptimizedRows(n, has_time, mp) ==
    IF n <= mp THEN n
    ELSE IF has_time
         THEN LET step == n \div mp IN (n + step - 1) \div step
         ELSE mp

\* summary.get("time_span_hours", 24), in hours as a ratio
TimeSpanHours(summ) ==
    IF "time_span_hours" \in summ.keys THEN summ.time_span_hours
    ELSE Ratio(HoursPerDay, 1)

\* the bucket width of a trend
TrendFreq(summ) ==
    LET span == TimeSpanHours(summ)
        AtMost(h) == span.num <= h * span.den
    IN  IF AtMost(1) THEN "1min"
        ELSE IF AtMost(HoursPerDay) THEN "1H"
        ELSE IF AtMost(HoursPerDay * DaysPerWeek) THEN "4H"
        ELSE IF AtMost(HoursPerDay * DaysPerMonth) THEN "1D"
        ELSE "1W"

\* What a chart builder returns: the payload and the summary dict as the
\* call leaves it.
Plotly(chart, points, freq, summ) ==
    [payload |-> [type |-> "plotly", chart |-> chart, points |-> points, freq |-> freq],
     summary |-> summ]

TableMessage(summ) ==
    [payload |-> [type |-> "table", chart |-> "message", points |-> 0, freq |-> ""],
     summary |-> summ]

\* a trend that stores the number of the rows it charted in the summary
MutCreateTrendVisualization_WritesSummary(res, summ) ==
    LET points == OptimizedRows(res.rows, res.has_time, MaxPointsDefault) IN
    Plotly("trend", points, TrendFreq(summ),
           [summ EXCEPT !.keys = @ \cup {"total_logs"}, !.total_logs = points])

CreateTrendVisualization(res, summ) ==
    Plotly("trend", OptimizedRows(res.rows, res.has_time, MaxPointsDefault),
           TrendFreq(summ), summ)

CreatePieVisualization(res, summ) ==
    IF res.charted THEN Plotly("pie", res.rows, "", summ)
    ELSE IF res.sources THEN Plotly("pie_sources", res.rows, "", summ)
    ELSE TableMessage(summ)

CreateBarVisualization(res, summ) ==
    IF res.charted THEN Plotly("bar", res.rows, "", summ)
    ELSE IF res.has_time THEN Plotly("bar_hours", res.rows, "", summ)
    ELSE TableMessage(summ)

\* pivots: whether building the pivot table went through
CreateHeatmapVisualization(res, summ, pivots) ==
    IF pivots THEN Plotly("heatmap", res.rows, "", summ)
    ELSE CreateBarVisualization(res, summ)

CreateSummaryDashboard(res, summ) == Plotly("dashboard", res.rows, "", summ)

DetermineBestVisualization(res) ==
    IF res.has_time /\ res.rows > 5 THEN "trend"
    ELSE IF res.has_categorical /\ res.rows > 3 THEN "bar"
    ELSE IF res.rows > 50 THEN "summary"
    ELSE "table"

GenerateVisualization(res, summ, kind, pivots) ==
    IF res.rows = 0 THEN TableMessage(summ)
    ELSE LET timestamp_exists == res.has_time
             vt == IF kind = "auto" THEN DetermineBestVisualization(res) ELSE kind
         IN  IF vt = "trend" /\ timestamp_exists THEN CreateTrendVisualization(res, summ)
             ELSE IF vt = "pie" THEN CreatePieVisualization(res, summ)
             ELSE IF vt = "bar" THEN CreateBarVisualization(res, summ)
             ELSE IF vt = "heatmap" /\ timestamp_exists
                  THEN CreateHeatmapVisualization(res, summ, pivots)
             ELSE IF vt = "summary" THEN CreateSummaryDashboard(res, summ)
             ELSE IF vt = "heatmap" /\ ~timestamp_exists
                  THEN CreateBarVisualization(res, summ)
             ELSE TableMessage(summ)

----------------------------------------------------------------------------
(* Specification of the visualizer on one result table *)

\* the row counts just below and above a threshold are told apart up to here
MaxSmallRows == 9

\* the row counts of the result tables: the small ones, those around the
\* thresholds of the automatic choice, and those around the multiples of
\* the default max_points
VizRowCounts ==
    0..MaxSmallRows
    \cup {50, 51}
    \cup {MaxPointsDefault - 1, MaxPointsDefault, MaxPointsDefault + 1,
          2 * MaxPointsDefault - 1, 2 * MaxPointsDefault, 2 * MaxPointsDefault + 1,
          4 * MaxPointsDefault, 4 * MaxPointsDefault + 1}

VizResults ==
    {res \in [rows : VizRowCounts, has_time : BOOLEAN, has_categorical : BOOLEAN,
              low_cardinality : BOOLEAN, charted : BOOLEAN, sources : BOOLEAN] :
        res.low_cardinality => res.has_categorical}

\* the thresholds optimize_dataframe_for_visualization is called with
VizMaxPoints == {2, 3, MaxPointsDefault}

VizTypes == {"auto", "trend", "pie", "bar", "heatmap", "summary", "table"}

\* the time spans of a summary, in minutes
VizTimeSpans ==
    {0, MinutesPerHour, MinutesPerHour + 1, HoursPerDay * MinutesPerHour + 1,
     HoursPerDay * DaysPerWeek * MinutesPerHour + 1,
     HoursPerDay * DaysPerMonth * MinutesPerHour + 1}

\* the summaries handed to the visualizer with a table of n rows: the empty
\* dict of a query without results, and dicts with or without a time span
VizSummaries(n) ==
    {EmptySummary}
    \cup {[EmptySummary EXCEPT !.keys = {"total_logs", "time_range", "query_params", "viz_type"},
                               !.total_logs = n]}
    \cup {[EmptySummary EXCEPT !.keys = {"total_logs", "time_range", "query_params", "viz_type",
                                         "earliest_log", "latest_log", "time_span_hours"},
                               !.total_logs = n,
                               !.time_span_hours = Ratio(m, MinutesPerHour)] :
            m \in VizTimeSpans}

InitViz ==
    /\ viz_results \in VizResults
    /\ summary \in VizSummaries(viz_results.rows)
    /\ max_points = MaxPointsDefault
    /\ viz_type = ""
    /\ optimized = 0
    /\ visualization = NoVisualization
    /\ pc = "ready"
    /\ search_params = DefaultParams
    /\ QueryIdle
    /\ SummaryIdle
    /\ NlpIdle
    /\ ParserIdle
    /\ GuiIdle
    /\ MoreIdle

\* df = visualizer.optimize_dataframe_for_visualization(results, max_points)
DoOptimize ==
    /\ pc = "ready"
    /\ \E mp \in VizMaxPoints :
          /\ max_points' = mp
          /\ optimized' = OptimizedRows(viz_results.rows, viz_results.has_time, mp)
    /\ pc' = "optimized"
    /\ UNCHANGED <<viz_results, viz_type, visualization, summary, outsideViz>>

\* visualization = visualizer.generate_visualization(results, summary, viz_type)
DoVisualize ==
    /\ pc = "ready"
    /\ \E kind \in VizTypes, pivots \in BOOLEAN :
          LET out == GenerateVisualization(viz_results, summary, kind, pivots) IN
          /\ viz_type' = kind
          /\ visualization' = out.payload
          /\ summary' = out.summary
    /\ pc' = "visualized"
    /\ UNCHANGED <<viz_results, max_points, optimized, outsideViz>>

NextViz == DoOptimize \/ DoVisualize

SpecViz == InitViz /\ [][NextViz]_vars

----------------------------------------------------------------------------
(* NLPQueryProcessor._extract_time_range                                   *)
(* A query is a sequence of tokens separated by one blank: words and runs  *)
(* of digits.  A datetime is a number of minutes after datetime.min and a  *)
(* time zone; a datetime before datetime.min does not exist, computing one *)
(* raises OverflowError.                                                   *)

Word(w) == [k |-> "word", w |-> w, d |-> <<>>]
Number(d) == [k |-> "digits", w |-> "", d |-> d]

\* str.lower() on one token
LowerToken(t) ==
    CASE t.w = "Last" -> Word("last")
      [] t.w = "Yesterday" -> Word("yesterday")
      [] t.w = "HOURS" -> Word("hours")
      [] OTHER -> t

\* query.lower().strip()
LowerQuery(q) == [i \in 1..Len(q) |-> LowerToken(q[i])]

\* the value of one decimal digit
DigitValue(c) == CHOOSE d \in 0..9 : DigitChar(d) = c

\* int() of a run of digits
RECURSIVE ParseInt(_)
ParseInt(d) ==
    IF d = <<>> THEN 0
    ELSE 10 * ParseInt(SubSeq(d, 1, Len(d) - 1)) + DigitValue(d[Len(d)])

\* the alternative of (minute|hour|day|week|month) a word starts with; ""
\* when it starts with none.  The pattern is not anchored after s?, so the
\* plural and the singular both match.
UnitOf(w) ==
    CASE w \in {"minute", "minutes"} -> "minute"
      [] w \in {"hour", "hours"} -> "hour"
      [] w \in {"day", "days"} -> "day"
      [] w \in {"week", "weeks"} -> "week"
      [] w \in {"month", "months"} -> "month"
      [] OTHER -> ""

\* the positions where last (\d+) (minute|hour|day|week|month)s? matches
LastMatches(q) ==
    {i \in 1..(Len(q) - 2) :
        /\ q[i].w = "last"
        /\ q[i + 1].k = "digits"
        /\ UnitOf(q[i + 2].w) # ""}

\* timedelta(minutes=..), (hours=..), (days=..), (weeks=..), (days=amount*30)
Timedelta(unit, amount) ==
    CASE unit = "minute" -> amount
      [] unit = "hour" -> amount * MinutesPerHour
      [] unit = "day" -> amount * HoursPerDay * MinutesPerHour
      [] unit = "week" -> amount * DaysPerWeek * HoursPerDay * MinutesPerHour
      [] OTHER -> amount * DaysPerMonth * HoursPerDay * MinutesPerHour

\* a timezone-aware datetime in UTC
Aware(n) == [n |-> n, tz |-> "UTC"]
NoDatetime == [n |-> 0, tz |-> ""]

\* datetime.astimezone(utc)
AsTimezoneUtc(d) == [d EXCEPT !.tz = "UTC"]

\* now.replace(hour=0, minute=0, second=0, microsecond=0)
Midnight(d) == [d EXCEPT !.n = DayOf(@) * HoursPerDay * MinutesPerHour]

\* datetime - timedelta: the datetime, or OverflowError
Minus(d, delta) ==
    IF d.n - delta < 0 THEN [raised |-> TRUE, value |-> NoDatetime]
    ELSE [raised |-> FALSE, value |-> [d EXCEPT !.n = @ - delta]]

\* what _extract_time_range returns, or that it raised
TimeInfo(start, end) == [raised |-> FALSE, start |-> start, end |-> end]
TimeInfoRaised == [raised |-> TRUE, start |-> NoDatetime, end |-> NoDatetime]
NoTimeInfo == [raised |-> FALSE, start |-> NoDatetime, end |-> NoDatetime]

\* the return statement _extract_time_range reaches
TimeBranch(q) ==
    IF LastMatches(q) # {} THEN "last"
    ELSE IF \E i \in 1..Len(q) : q[i].w = "today" THEN "today"
    ELSE IF \E i \in 1..Len(q) : q[i].w = "yesterday" THEN "yesterday"
    ELSE "default"

\* the branch of last N units; re.search takes the leftmost match
LastRange(q, present) ==
    LET i == MinOf(LastMatches(q))
        start_time == Minus(present, Timedelta(UnitOf(q[i + 2].w), ParseInt(q[i + 1].d)))
    IN  IF start_time.raised THEN TimeInfoRaised
        ELSE TimeInfo(AsTimezoneUtc(start_time.value), AsTimezoneUtc(present))

\* _extract_time_range(query, doc) at now = present, query lowered
ExtractTimeRange(q, present) ==
    LET branch == TimeBranch(q)
        today == Midnight(present)
    IN  CASE branch = "last" -> LastRange(q, present)
          [] branch = "today" -> TimeInfo(AsTimezoneUtc(today), AsTimezoneUtc(present))
          [] branch = "yesterday" ->
                LET start == Minus(today, HoursPerDay * MinutesPerHour) IN
                IF start.raised THEN TimeInfoRaised
                ELSE TimeInfo(AsTimezoneUtc(start.value), AsTimezoneUtc(today))
          [] OTHER ->
                LET start == Minus(present, HoursPerDay * MinutesPerHour) IN
                IF start.raised THEN TimeInfoRaised
                ELSE TimeInfo(AsTimezoneUtc(start.value), AsTimezoneUtc(present))

\* params["time_range"] of process_query(query)
ProcessQueryTimeRange(q, present) == ExtractTimeRange(LowerQuery(q), present)

\* the time_range analyze reads: the bounds as timestamps
AsTimeRange(info) == TimeRange(Time(info.start.n), Time(info.end.n))

----------------------------------------------------------------------------
(* Specification of a typed query: process_query, then analyze with the   *)
(* time range it found on one table                                        *)

\* the amounts of a query go up to here
MaxAmount == 12

\* now is on one of the days up to here after datetime.min
MaxNowDay == 45

\* the digits of the amounts, some with a leading zero
AmountDigits ==
    {Digits(n) : n \in {0, 1, 2, 3} \cup {MaxAmount}} \cup {<<"0">> \o Digits(2)}

UnitWords ==
    {"minute", "minutes", "hour", "hours", "HOURS", "day", "days", "week", "weeks",
     "month", "months"}

\* the part of a query that names the time
TimePhrases ==
    {<<Word(l), Number(d), Word(u)>> : l \in {"last", "Last"}, d \in AmountDigits, u \in UnitWords}
    \cup {<<Word("today")>>, <<Word("yesterday")>>, <<Word("Yesterday")>>, <<>>,
          <<Word("last"), Word("days")>>, <<Word("last"), Number(Digits(2))>>,
          <<Word("yesterday"), Word("last"), Number(Digits(1)), Word("day")>>,
          <<Word("last"), Number(Digits(1)), Word("day"), Word("last"), Number(Digits(2)), Word("hours")>>}

NlpQueries ==
    {before \o phrase \o after :
        before \in {<<>>, <<Word("show")>>}, phrase \in TimePhrases,
        after \in {<<>>, <<Word("errors")>>}}

\* the reference times: a midnight, and times within a day, early and late
\* after datetime.min
NlpNows ==
    {d * HoursPerDay * MinutesPerHour + m :
        d \in {2, MaxNowDay}, m \in {0, MinutesPerHour + 1}}

\* the timestamps of the rows: around the two midnights and now
NlpRowTimes(present) ==
    LET today == Midnight(Aware(present)).n
        day == HoursPerDay * MinutesPerHour
    IN  {today - day - 1, today - day, today - 1, today, present}

\* a table of one row per timestamp, in some order
NlpTables(present) ==
    {MakeTable({"timestamp", "source_file"},
               [i \in 1..Len(ts) |->
                   [c \in {"timestamp", "source_file"} |->
                       IF c = "timestamp" THEN Time(ts[i]) ELSE Str(<<"0">>)]]) :
        ts \in {s \in SeqsUpTo(NlpRowTimes(present), 2) :
                    \A i, j \in 1..Len(s) : i # j => s[i] # s[j]}}

InitNlp ==
    /\ query \in NlpQueries
    /\ now \in NlpNows
    /\ \E t \in NlpTables(now) : log_data = <<[name |-> "0", frame |-> t]>>
    /\ time_info = NoTimeInfo
    /\ search_params = DefaultParams
    /\ pc = "ready"
    /\ result = NotRun
    /\ again = NotRun
    /\ permuted = NotRun
    /\ file_index = 0
    /\ all_results = <<>>
    /\ combined = NotRun
    /\ summary = EmptySummary
    /\ SummaryIdle
    /\ VizIdle
    /\ ParserIdle
    /\ GuiIdle
    /\ MoreIdle

\* params = self.nlp_processor.process_query(query): the time range
DoProcessQuery ==
    /\ pc = "ready"
    /\ time_info' = ProcessQueryTimeRange(query, Aware(now))
    /\ IF time_info'.raised
       THEN pc' = "failed" /\ UNCHANGED search_params
       ELSE /\ pc' = "parsed"
            /\ search_params' = [DefaultParams EXCEPT !.time_range = AsTimeRange(time_info')]
    /\ UNCHANGED <<query, now, outsideNlp>>

\* analyzer.analyze(df, params) with the time range of the query
DoAnalyzeParsed ==
    /\ pc = "parsed"
    /\ result' = Analyze(log_data[1].frame, search_params)
    /\ pc' = "filtered"
    /\ UNCHANGED <<query, now, time_info, search_params, log_data, again, permuted,
                   file_index, all_results, combined, summary, summaryVars, vizVars,
                   parserVars, guiVars, moreVars>>

NextNlp == DoProcessQuery \/ DoAnalyzeParsed

SpecNlp == InitNlp /\ [][NextNlp]_vars

----------------------------------------------------------------------------
(* LogParser.parse_log_file                                                *)
(* A file is what reading it gives: whether the path exists, whether       *)
(* pd.read_csv returns a table or raises, the header (lower-cased and      *)
(* stripped) and the rows, each a sequence of cells in header order.       *)

\* the entry of common_headers whose keywords occur in a column name; ""
\* when none does
SemanticType(name) ==
    CASE name \in {"timestamp", "date"} -> "timestamp"
      [] name = "host" -> "hostname"
      [] name = "level" -> "severity"
      [] name = "msg" -> "message"
      [] OTHER -> ""

\* rename_map of _standardize_column_names: the first column that matches
\* an entry gets the name of the entry
RenameByName(header) ==
    [i \in 1..Len(header) |->
        IF SemanticType(header[i]) # ""
              /\ \A j \in 1..(i - 1) : SemanticType(header[j]) # SemanticType(header[i])
        THEN SemanticType(header[i])
        ELSE header[i]]

\* a cell whose text matches one of the date patterns
DateLike(cell) == cell.k = "str" /\ ToDatetime(cell).k = "time"

\* the columns whose first cells hold a date-like string
DateLikeColumns(header, rows) ==
    {i \in 1..Len(header) : \E r \in 1..Len(rows) : DateLike(rows[r][i])}

\* _standardize_column_names for a file of no known format: the renaming by
\* name, then, without a timestamp column, the first column with date-like
\* cells becomes timestamp
StandardizeColumnNames(header, rows) ==
    LET named == RenameByName(header)
        dated == DateLikeColumns(named, rows)
    IN  IF (\E i \in 1..Len(named) : named[i] = "timestamp") \/ dated = {}
        THEN named
        ELSE [named EXCEPT ![MinOf(dated)] = "timestamp"]

\* find_time_column: a common header name that is a column, else a column
\* whose name contains 'time' or 'date'; "" for None
FindTimeColumn(columns) ==
    IF \E i \in 1..Len(columns) : columns[i] = "timestamp" THEN "timestamp"
    ELSE IF \E i \in 1..Len(columns) : columns[i] = "date" THEN "date"
    ELSE ""

\* pd.to_datetime(cell, errors='coerce', utc=True)
ToDatetimeUtc(cell) == ToDatetime(cell)

\* pd.to_numeric(cell, errors='coerce')
ToNumeric(cell) ==
    IF cell.k = "str" /\ Len(cell.s) > 0 /\ \A i \in 1..Len(cell.s) : cell.s[i] \in {DigitChar(d) : d \in 0..9}
    THEN IntV(ParseInt(cell.s))
    ELSE IF cell.k \in {"int", "float"} THEN cell
    ELSE Null

\* the position of a column
ColumnIndex(columns, name) == CHOOSE i \in 1..Len(columns) : columns[i] = name

\* the cell of one row in a column of the table parse_log_file returns.
\* _standardize_timestamps sets timestamp from the time column, or, when
\* there is none, to pd.Timestamp.now(tz=utc) in every row.
ParsedCell(columns, row, col, time_col, loadtime, name) ==
    CASE col = "timestamp" ->
            IF time_col # "" THEN ToDatetimeUtc(row[ColumnIndex(columns, time_col)])
            ELSE Time(loadtime)
      [] col = "source_file" -> Str(<<name>>)
      [] col = "severity" -> ToNumeric(row[ColumnIndex(columns, col)])
      [] OTHER -> row[ColumnIndex(columns, col)]

\* pd.DataFrame({"error": [...]}) and the frame of the last handler
NotFoundFrame ==
    MakeTable({"error"}, <<[c \in {"error"} |-> Str(<<"File not found">>)]>>)

ParsingFailedFrame(name) ==
    MakeTable({"error", "source_file"},
              <<[c \in {"error", "source_file"} |->
                    IF c = "error" THEN Str(<<"Parsing failed">>) ELSE Str(<<name>>)]>>)

\* parse_log_file(file_path) at the time loadtime
ParseLogFile(f, loadtime) ==
    IF ~f.exists THEN Returned(NotFoundFrame)
    ELSE IF f.reading = "EmptyDataError" THEN Returned(EmptyFrame)
    ELSE IF f.reading = "Exception" THEN Returned(ParsingFailedFrame(f.name))
    ELSE LET columns == StandardizeColumnNames(f.header, f.rows)
             time_col == FindTimeColumn(columns)
             cols == {columns[i] : i \in 1..Len(columns)} \cup {"timestamp", "source_file"}
         IN  Returned(MakeTable(cols,
                 [r \in 1..Len(f.rows) |->
                     [c \in cols |-> ParsedCell(columns, f.rows[r], c, time_col, loadtime, f.name)]]))

\* the test of the callers for a failure: "error" in df.columns
IsFailure(df) == "error" \in df.columns

\* a variant of the test that keeps a table with an error column
MutIsLoadable_KeepsFailures(df) == ~IsEmpty(df)

\* the test of the callers for a table to keep
IsLoadable(df) == ~IsEmpty(df) /\ ~IsFailure(df)

----------------------------------------------------------------------------
(* Specification of loading one file and filtering it by time *)

\* the names of the columns of the files
HeaderNames == {"date", "timestamp", "host", "level", "msg", "error"}

\* a file has columns up to here
MaxColumns == 2

\* a file has rows up to here
MaxFileRows == 2

\* headers without a repeated name and without two names of one entry
Headers ==
    {<<>>} \cup
    {h \in SeqsUpTo(HeaderNames, MaxColumns) :
        \A i, j \in 1..Len(h) :
            i # j => /\ h[i] # h[j]
                     /\ SemanticType(h[i]) = "" \/ SemanticType(h[i]) # SemanticType(h[j])}

\* the cells of a column of a file
FileCells(name) ==
    IF name = "level" THEN {Str(<<"2">>), Str(<<"a">>), Null}
    ELSE {Str(<<"a">>), Str(<<"t", "1">>), Null}

FileRows(h) ==
    {rows \in {<<>>} \cup SeqsUpTo([1..Len(h) -> UNION {FileCells(n) : n \in HeaderNames}], MaxFileRows) :
        \A r \in 1..Len(rows), i \in 1..Len(h) : rows[r][i] \in FileCells(h[i])}

\* a missing path; a file without any column, for which read_csv raises
\* EmptyDataError; a file for which reading raises something else; a file
\* with a header and zero or more rows
Files ==
    {[exists |-> FALSE, reading |-> "ok", name |-> "0", header |-> <<>>, rows |-> <<>>],
     [exists |-> TRUE, reading |-> "EmptyDataError", name |-> "0", header |-> <<>>, rows |-> <<>>],
     [exists |-> TRUE, reading |-> "Exception", name |-> "0", header |-> <<>>, rows |-> <<>>]}
    \cup UNION {{[exists |-> TRUE, reading |-> "ok", name |-> "0", header |-> h, rows |-> rows] :
                    rows \in FileRows(h)} : h \in Headers \ {<<>>}}

\* the times of loading
LoadTimes == {1, 3}

\* the time ranges of the request that follows
LoadTimeRanges == {NoTimeRange, TimeRange(Time(0), Time(2)), TimeRange(Time(2), None)}

InitParse ==
    /\ file \in Files
    /\ now \in LoadTimes
    /\ \E tr \in LoadTimeRanges : search_params = [DefaultParams EXCEPT !.time_range = tr]
    /\ parsed = NotRun
    /\ pc = "ready"
    /\ QueryIdle
    /\ summary = EmptySummary
    /\ SummaryIdle
    /\ VizIdle
    /\ query = <<>>
    /\ time_info = NoTimeInfo
    /\ GuiIdle
    /\ MoreIdle

\* df = self.log_parser.parse_log_file(file_path)
DoParse ==
    /\ pc = "ready"
    /\ parsed' = ParseLogFile(file, now)
    /\ pc' = "loaded"
    /\ UNCHANGED <<file, now, query, time_info, search_params, summary, queryVars,
                   summaryVars, vizVars, guiVars, moreVars>>

\* analyzer.analyze(df, params) on a table the callers keep
DoAnalyzeLoaded ==
    /\ pc = "loaded"
    /\ ~parsed.raised
    /\ IsLoadable(parsed.frame)
    /\ result' = Analyze(parsed.frame, search_params)
    /\ pc' = "filtered"
    /\ UNCHANGED <<file, parsed, now, query, time_info, search_params, summary,
                   log_data, again, permuted, file_index, all_results, combined,
                   summaryVars, vizVars, guiVars, moreVars>>

NextParse == DoParse \/ DoAnalyzeLoaded

SpecParse == InitParse /\ [][NextParse]_vars

----------------------------------------------------------------------------
(* EONParserGUI: a query on the worker thread while the UI thread runs     *)
(* The worker is handed self.log_data itself, the dict the UI thread       *)
(* writes.  log_data is the dict in insertion order.  An iterator over a   *)
(* dict holds the size the dict had when the iterator was made and a       *)
(* position in the entries; its next step raises RuntimeError when the     *)
(* size differs, and otherwise gives the entry at the position as it is    *)
(* then.                                                                   *)

\* the names of the loaded files
NamesOf(data) == {data[i].name : i \in 1..Len(data)}

\* self.log_data[filename] = df: the table of a loaded name is replaced in
\* its place, a new name is added at the end
SetItem(data, name, df) ==
    IF name \in NamesOf(data)
    THEN [i \in 1..Len(data) |-> IF data[i].name = name THEN [name |-> name, frame |-> df] ELSE data[i]]
    ELSE Append(data, [name |-> name, frame |-> df])

\* the tables of the dict, in its order
FramesOf(data) == [i \in 1..Len(data) |-> data[i].frame]

----------------------------------------------------------------------------
(* Specification of one query with loads and clear_logs going on *)

\* handlers the UI thread runs while the query is under way, up to here
MaxUiEvents == 2

\* the tables a file is loaded as
GuiFrames(name) ==
    {WithSource(MakeTable({"action", "source_file"},
                          <<[c \in {"action", "source_file"} |-> Str(<<a>>)]>>), name) :
        a \in {"a", "b"}}

GuiNames == {FileChar(i) : i \in 1..MaxFiles}

InitGui ==
    /\ \E n \in 1..(MaxFiles - 1) :
          \E fs \in [1..n -> UNION {GuiFrames(nm) : nm \in GuiNames}] :
              /\ \A i \in 1..n : fs[i] \in GuiFrames(FileChar(i))
              /\ log_data = [i \in 1..n |-> [name |-> FileChar(i), frame |-> fs[i]]]
    /\ search_params \in {DefaultParams, [DefaultParams EXCEPT !.action = Str(<<"a">>)]}
    /\ pc = "ready"
    /\ it_used = 0
    /\ started_with = <<>>
    /\ analyzed = <<>>
    /\ ui_events = 0
    /\ current_summary = EmptySummary
    /\ result = NotRun
    /\ again = NotRun
    /\ permuted = NotRun
    /\ file_index = 0
    /\ all_results = <<>>
    /\ combined = NotRun
    /\ summary = EmptySummary
    /\ SummaryIdle
    /\ VizIdle
    /\ NlpIdle
    /\ ParserIdle
    /\ MoreIdle

\* run_query in the UI thread: the worker thread is started with self.log_data
RunQuery ==
    /\ pc = "ready"
    /\ Len(log_data) > 0
    /\ started_with' = FramesOf(log_data)
    /\ pc' = "started"
    /\ UNCHANGED <<log_data, search_params, it_used, analyzed, ui_events, current_summary,
                   result, again, permuted, file_index, all_results, combined, summary,
                   current_results, count_request, reordered, vizVars, nlpVars, parserVars, moreVars>>

\* the worker reaches: for filename, df in log_data_dict.items()
WorkerBeginsLoop ==
    /\ pc = "started"
    /\ it_used' = Len(log_data)
    /\ file_index' = 1
    /\ all_results' = <<>>
    /\ pc' = "iterating"
    /\ UNCHANGED <<log_data, search_params, started_with, analyzed, ui_events, current_summary,
                   result, again, permuted, combined, summary,
                   current_results, count_request, reordered, vizVars, nlpVars, parserVars, moreVars>>

\* one step of the loop: the size has changed and RuntimeError leaves the
\* worker function, which WorkerThread.run reports by its error signal; or
\* the entries are used up; or the entry at the position is analyzed
WorkerNext ==
    /\ pc = "iterating"
    /\ IF it_used # Len(log_data)
       THEN /\ pc' = "error"
            /\ UNCHANGED <<file_index, all_results, analyzed>>
       ELSE IF file_index > Len(log_data)
       THEN /\ pc' = "combining"
            /\ UNCHANGED <<file_index, all_results, analyzed>>
       ELSE /\ all_results' =
                  CollectResult(all_results, Analyze(log_data[file_index].frame, search_params))
            /\ analyzed' = Append(analyzed, log_data[file_index].frame)
            /\ file_index' = file_index + 1
            /\ pc' = pc
    /\ UNCHANGED <<log_data, search_params, it_used, started_with, ui_events, current_summary,
                   result, again, permuted, combined, summary,
                   current_results, count_request, reordered, vizVars, nlpVars, parserVars, moreVars>>

\* after the loop: the worker returns the combined table and its summary
WorkerCombines ==
    /\ pc = "combining"
    /\ combined' = IF all_results = <<>> THEN Returned(EmptyFrame)
                   ELSE Returned(Concat(all_results))
    /\ \E counting \in BOOLEAN :
          summary' = IF all_results = <<>> THEN EmptySummary
                     ELSE GenerateSummary(Concat(all_results), search_params, counting)
    /\ pc' = "returned"
    /\ UNCHANGED <<log_data, search_params, it_used, started_with, analyzed, ui_events,
                   current_summary, result, again, permuted, file_index, all_results,
                   current_results, count_request, reordered, vizVars, nlpVars, parserVars, moreVars>>

\* _process_query_result in the UI thread
ProcessQueryResult ==
    /\ pc = "returned"
    /\ current_results' = combined.frame
    /\ current_summary' = summary
    /\ pc' = "shown"
    /\ UNCHANGED <<log_data, search_params, it_used, started_with, analyzed, ui_events,
                   result, again, permuted, file_index, all_results, combined, summary,
                   count_request, reordered, vizVars, nlpVars, parserVars, moreVars>>

\* _process_log_file_result in the UI thread, for a table it keeps
LoadCompletes ==
    /\ pc \in {"started", "iterating", "combining"}
    /\ ui_events < MaxUiEvents
    /\ \E name \in GuiNames : \E df \in GuiFrames(name) :
          log_data' = SetItem(log_data, name, df)
    /\ ui_events' = ui_events + 1
    /\ UNCHANGED <<search_params, pc, it_used, started_with, analyzed, current_summary,
                   result, again, permuted, file_index, all_results, combined, summary,
                   current_results, count_request, reordered, vizVars, nlpVars, parserVars, moreVars>>

\* clear_logs in the UI thread, confirmed
ClearLogs ==
    /\ pc \in {"started", "iterating", "combining"}
    /\ ui_events < MaxUiEvents
    /\ log_data' = <<>>
    /\ current_results' = EmptyFrame
    /\ current_summary' = EmptySummary
    /\ ui_events' = ui_events + 1
    /\ UNCHANGED <<search_params, pc, it_used, started_with, analyzed,
                   result, again, permuted, file_index, all_results, combined, summary,
                   count_request, reordered, vizVars, nlpVars, parserVars, moreVars>>

NextGui ==
    \/ RunQuery
    \/ WorkerBeginsLoop
    \/ WorkerNext
    \/ WorkerCombines
    \/ ProcessQueryResult
    \/ LoadCompletes
    \/ ClearLogs

SpecGui == InitGui /\ [][NextGui]_vars

----------------------------------------------------------------------------
(* LogParser._standardize_column_names on the column names                *)
(* A column name is the sequence of its characters, so that `name in col` *)
(* is the search for a substring.  A column is its name and whether the   *)
(* first ten of its cells that are not missing hold a date-like string.   *)

\* the names the parser writes
Name_timestamp == <<"t", "i", "m", "e", "s", "t", "a", "m", "p">>
Name_src_ip == <<"s", "r", "c", "_", "i", "p">>
Name_dst_ip == <<"d", "s", "t", "_", "i", "p">>
Name_src_port == <<"s", "r", "c", "_", "p", "o", "r", "t">>
Name_dst_port == <<"d", "s", "t", "_", "p", "o", "r", "t">>

\* common_headers, in the order of the dict: the semantic type and the
\* words looked for in a column name
common_headers ==
    <<[type |-> <<"t", "i", "m", "e", "s", "t", "a", "m", "p">>,
       names |-> <<<<"t", "i", "m", "e", "s", "t", "a", "m", "p">>,
                   <<"d", "a", "t", "e">>,
                   <<"t", "i", "m", "e">>,
                   <<"d", "a", "t", "e", "t", "i", "m", "e">>,
                   <<"@", "t", "i", "m", "e", "s", "t", "a", "m", "p">>,
                   <<"e", "v", "e", "n", "t", "t", "i", "m", "e">>>>],
      [type |-> <<"h", "o", "s", "t", "n", "a", "m", "e">>,
       names |-> <<<<"h", "o", "s", "t", "n", "a", "m", "e">>,
                   <<"h", "o", "s", "t">>,
                   <<"d", "e", "v", "i", "c", "e">>,
                   <<"n", "o", "d", "e">>,
                   <<"s", "y", "s", "t", "e", "m">>>>],
      [type |-> <<"s", "e", "v", "e", "r", "i", "t", "y">>,
       names |-> <<<<"s", "e", "v", "e", "r", "i", "t", "y">>,
                   <<"l", "e", "v", "e", "l">>,
                   <<"p", "r", "i", "o", "r", "i", "t", "y">>,
                   <<"s", "e", "v">>>>],
      [type |-> <<"i", "p">>,
       names |-> <<<<"i", "p">>,
                   <<"s", "o", "u", "r", "c", "e", "_", "i", "p">>,
                   <<"d", "e", "s", "t", "_", "i", "p">>,
                   <<"s", "r", "c", "_", "i", "p">>,
                   <<"d", "s", "t", "_", "i", "p">>,
                   <<"s", "o", "u", "r", "c", "e">>,
                   <<"d", "e", "s", "t", "i", "n", "a", "t", "i", "o", "n">>>>],
      [type |-> <<"p", "o", "r", "t">>,
       names |-> <<<<"p", "o", "r", "t">>,
                   <<"s", "o", "u", "r", "c", "e", "_", "p", "o", "r", "t">>,
                   <<"d", "e", "s", "t", "_", "p", "o", "r", "t">>,
                   <<"s", "r", "c", "_", "p", "o", "r", "t">>,
                   <<"d", "s", "t", "_", "p", "o", "r", "t">>>>],
      [type |-> <<"p", "r", "o", "t", "o", "c", "o", "l">>,
       names |-> <<<<"p", "r", "o", "t", "o", "c", "o", "l">>,
                   <<"p", "r", "o", "t", "o">>>>],
      [type |-> <<"a", "c", "t", "i", "o", "n">>,
       names |-> <<<<"a", "c", "t", "i", "o", "n">>,
                   <<"d", "i", "s", "p", "o", "s", "i", "t", "i", "o", "n">>,
                   <<"s", "t", "a", "t", "u", "s">>>>],
      [type |-> <<"m", "e", "s", "s", "a", "g", "e">>,
       names |-> <<<<"m", "e", "s", "s", "a", "g", "e">>,
                   <<"m", "s", "g">>,
                   <<"l", "o", "g">>,
                   <<"d", "e", "s", "c", "r", "i", "p", "t", "i", "o", "n">>,
                   <<"d", "a", "t", "a">>,
                   <<"e", "v", "e", "n", "t">>>>]>>

\* the columns of known_log_formats
known_log_formats ==
    [cisco_asa |->
        <<<<"t", "i", "m", "e", "s", "t", "a", "m", "p">>,
          <<"h", "o", "s", "t", "n", "a", "m", "e">>,
          <<"s", "e", "v", "e", "r", "i", "t", "y">>,
          <<"m", "e", "s", "s", "a", "g", "e", "_", "i", "d">>,
          <<"m", "e", "s", "s", "a", "g", "e">>,
          <<"s", "r", "c", "_", "i", "p">>,
          <<"s", "r", "c", "_", "p", "o", "r", "t">>,
          <<"d", "s", "t", "_", "i", "p">>,
          <<"d", "s", "t", "_", "p", "o", "r", "t">>,
          <<"p", "r", "o", "t", "o", "c", "o", "l">>,
          <<"a", "c", "t", "i", "o", "n">>>>,
     palo_alto |->
        <<<<"t", "i", "m", "e", "s", "t", "a", "m", "p">>,
          <<"h", "o", "s", "t", "n", "a", "m", "e">>,
          <<"s", "e", "v", "e", "r", "i", "t", "y">>,
          <<"a", "c", "t", "i", "o", "n">>,
          <<"s", "r", "c", "_", "i", "p">>,
          <<"d", "s", "t", "_", "i", "p">>,
          <<"s", "r", "c", "_", "p", "o", "r", "t">>,
          <<"d", "s", "t", "_", "p", "o", "r", "t">>,
          <<"p", "r", "o", "t", "o", "c", "o", "l">>,
          <<"m", "e", "s", "s", "a", "g", "e">>>>]

\* the words that tell a source column and a destination column
SourceWords == <<<<"s", "o", "u", "r", "c", "e">>, <<"s", "r", "c">>>>
DestWords == <<<<"d", "e", "s", "t">>, <<"d", "s", "t">>, <<"d", "e", "s", "t", "i", "n", "a", "t", "i", "o", "n">>>>

\* the prefixes of the names given to a file without a header
PlaceholderPrefixes == <<<<"t", "e", "x", "t", "_">>, <<"n", "u", "m", "e", "r", "i", "c", "_">>, <<"d", "a", "t", "e", "t", "i", "m", "e", "_">>>>

\* any(word in col for word in words)
HasAny(words, col) == \E n \in 1..Len(words) : IsSubstring(words[n], col)

\* rename_map[key] = value
Assign(rename_map, key, value) ==
    [col \in DOMAIN rename_map \cup {key} |-> IF col = key THEN value ELSE rename_map[col]]

\* one turn of the loop over common_headers: the columns that hold one of
\* the words of the entry, in column order, and what the entry writes into
\* rename_map
RenameStep(rename_map, names, entry) ==
    LET Match(col) == HasAny(entry.names, col)
        IsSource(col) == HasAny(SourceWords, col)
        IsDest(col) == HasAny(DestWords, col)
        matches == SelectSeq(names, Match)
        src_cols == SelectSeq(matches, IsSource)
        dst_cols == SelectSeq(matches, IsDest)
        WithSource_(m, target) == IF src_cols # <<>> THEN Assign(m, src_cols[1], target) ELSE m
        WithDest_(m, target) == IF dst_cols # <<>> THEN Assign(m, dst_cols[1], target) ELSE m
    IN  IF matches = <<>> THEN rename_map
        ELSE IF entry.type = <<"i", "p">>
        THEN WithDest_(WithSource_(rename_map, Name_src_ip), Name_dst_ip)
        ELSE IF entry.type = <<"p", "o", "r", "t">>
        THEN WithDest_(WithSource_(rename_map, Name_src_port), Name_dst_port)
        ELSE Assign(rename_map, matches[1], entry.type)

\* rename_map after the entries from the k-th on
RECURSIVE RenameMap(_, _, _)
RenameMap(rename_map, names, k) ==
    IF k > Len(common_headers) THEN rename_map
    ELSE RenameMap(RenameStep(rename_map, names, common_headers[k]), names, k + 1)

\* df.rename(columns=rename_map, inplace=True)
Rename(columns, rename_map) ==
    [i \in 1..Len(columns) |->
        IF columns[i].name \in DOMAIN rename_map
        THEN [columns[i] EXCEPT !.name = rename_map[columns[i].name]]
        ELSE columns[i]]

\* whether the name of the i-th column is the name of another column too
Duplicated(columns, i) ==
    \E j \in 1..Len(columns) : j # i /\ columns[j].name = columns[i].name

\* the search for a timestamp column by content.  df[col] of a name that
\* two columns have is a table, which has no .str: the search raises there.
TimestampByContent(columns) ==
    LET stops == {i \in 1..Len(columns) : Duplicated(columns, i) \/ columns[i].datelike} IN
    IF stops = {} THEN [raised |-> FALSE, columns |-> columns]
    ELSE IF Duplicated(columns, MinOf(stops)) THEN [raised |-> TRUE, columns |-> columns]
    ELSE [raised |-> FALSE,
          columns |-> [columns EXCEPT ![MinOf(stops)].name = Name_timestamp]]

\* col.startswith(('text_', 'numeric_', 'datetime_'))
IsPlaceholder(col) ==
    \E n \in 1..Len(PlaceholderPrefixes) :
        /\ Len(PlaceholderPrefixes[n]) <= Len(col)
        /\ SubSeq(col, 1, Len(PlaceholderPrefixes[n])) = PlaceholderPrefixes[n]

\* _standardize_column_names(df, log_format): the columns of df afterwards
StandardizeNames(columns, format) ==
    LET names == [i \in 1..Len(columns) |-> columns[i].name]
        expected_columns == known_log_formats[format]
        by_name == Rename(columns, RenameMap(<<>>, names, 1))
    IN  IF /\ format \in DOMAIN known_log_formats
           /\ Len(columns) = Len(expected_columns)
           /\ \A i \in 1..Len(columns) : IsPlaceholder(names[i])
        THEN [raised |-> FALSE,
              columns |-> [i \in 1..Len(columns) |->
                              [columns[i] EXCEPT !.name = expected_columns[i]]]]
        ELSE IF \E i \in 1..Len(by_name) : by_name[i].name = Name_timestamp
        THEN [raised |-> FALSE, columns |-> by_name]
        ELSE TimestampByContent(by_name)

----------------------------------------------------------------------------
(* Specification of the renaming of the columns of one table *)

\* columns of the table, up to here
MaxNames == 3

\* the column names of the tables, lower-cased and stripped
InputNames ==
    {<<"d", "a", "t", "e">>,
     <<"t", "i", "m", "e", "s", "t", "a", "m", "p">>,
     <<"e", "v", "e", "n", "t", "t", "i", "m", "e">>,
     <<"s", "o", "u", "r", "c", "e", "_", "p", "o", "r", "t">>,
     <<"s", "o", "u", "r", "c", "e", "_", "i", "p">>,
     <<"h", "o", "s", "t">>,
     <<"h", "o", "s", "t", "n", "a", "m", "e">>,
     <<"n", "o", "t", "e">>}

LogFormats == {"generic", "cisco_asa", "palo_alto"}

\* the tables: columns of different names
InputColumns ==
    UNION {{cols \in [1..n -> [name : InputNames, datelike : BOOLEAN]] :
               \A i, j \in 1..n : i # j => cols[i].name # cols[j].name} :
           n \in 1..MaxNames}

InitRename ==
    /\ df_columns \in InputColumns
    /\ log_format \in LogFormats
    /\ renamed = [raised |-> FALSE, columns |-> <<>>]
    /\ pc = "ready"
    /\ search_params = DefaultParams
    /\ summary = EmptySummary
    /\ QueryIdle
    /\ SummaryIdle
    /\ VizIdle
    /\ NlpIdle
    /\ ParserIdle
    /\ GuiIdle
    /\ ThreadsIdle

\* self._standardize_column_names(df, log_format)
DoStandardize ==
    /\ pc = "ready"
    /\ renamed' = StandardizeNames(df_columns, log_format)
    /\ pc' = "renamed"
    /\ UNCHANGED <<df_columns, log_format, queryVars, search_params, summary, summaryVars,
                   vizVars, nlpVars, parserVars, guiVars, threadVars>>

NextRename == DoStandardize

SpecRename == InitRename /\ [][NextRename]_vars

----------------------------------------------------------------------------
(* EONParserGUI: the window, its workers and its handlers                  *)
(* A WorkerThread runs one function and emits finished with what the       *)
(* function returned, or error when it raised.  The signal is delivered to *)
(* the UI thread, which runs the slot given to start_thread and then       *)
(* cleanup_thread.  The handlers of the UI thread run one at a time.       *)

\* the steps of analyze_data_in_thread over the dict, from the i-th entry
RECURSIVE AnalyzeEntries(_, _, _, _)
AnalyzeEntries(data, i, p, all) ==
    IF i > Len(data) THEN all
    ELSE AnalyzeEntries(data, i + 1, p, CollectResult(all, Analyze(data[i].frame, p)))

\* what analyze_data_in_thread returns: the combined table and its summary
AnalyzeDataInThread(data, request) ==
    LET all == AnalyzeEntries(data, 1, request.params, <<>>) IN
    IF all = <<>> THEN [frame |-> EmptyFrame, summary |-> EmptySummary]
    ELSE [frame |-> Concat(all),
          summary |-> GenerateSummary(Concat(all), request.params, request.counts)]

\* the dict parse_log_directory fills from the i-th file of the directory
RECURSIVE ParseLogFiles(_, _, _, _)
ParseLogFiles(files, i, loadtime, data) ==
    IF i > Len(files) THEN data
    ELSE LET df == ParseLogFile(files[i], loadtime).frame IN
         ParseLogFiles(files, i + 1, loadtime,
                       IF IsLoadable(df) THEN SetItem(data, files[i].name, df) ELSE data)

\* parse_log_directory(directory_path): the dict {"error": ...} of a missing
\* directory, or the dict of the tables kept
ParseLogDirectory(dir, loadtime) ==
    IF ~dir.exists THEN [error |-> TRUE, tables |-> <<>>]
    ELSE [error |-> FALSE, tables |-> ParseLogFiles(dir.files, 1, loadtime, <<>>)]

\* _process_log_file_result: the dict afterwards
ProcessLogFileResult(data, name, df) ==
    IF IsLoadable(df) THEN SetItem(data, name, df) ELSE data

\* _process_log_directory_result: the dict after the entries from the i-th on
RECURSIVE ProcessLogDirectoryResult(_, _, _)
ProcessLogDirectoryResult(data, logs_data, i) ==
    IF logs_data.error \/ i > Len(logs_data.tables) THEN data
    ELSE ProcessLogDirectoryResult(
             ProcessLogFileResult(data, logs_data.tables[i].name, logs_data.tables[i].frame),
             logs_data, i + 1)

\* a thread whose run() has returned
IsFinished(thread) == thread.signals # <<>>

\* a variant of cleanup_thread that leaves the list as it is
MutCleanupThread_Keeps(active, t) == active

\* cleanup_thread(thread)
CleanupThread(active, t) == SelectSeq(active, LAMBDA u : u # t)

\* start_thread: the finished threads leave the list, the new one joins it
StartThread(all, active) ==
    Append(SelectSeq(active, LAMBDA u : ~IsFinished(all[u])), Len(all) + 1)

\* nothing returned yet
NoResult == [frame |-> EmptyFrame, summary |-> EmptySummary,
             logs_data |-> [error |-> FALSE, tables |-> <<>>]]

NoFile == [exists |-> FALSE, reading |-> "ok", name |-> "", header |-> <<>>, rows |-> <<>>]
NoDir == [exists |-> FALSE, readable |-> FALSE, files |-> <<>>]
NoRequest == [params |-> DefaultParams, counts |-> FALSE]

\* WorkerThread(func, *args): the function, its arguments, the size the
\* dict iterator of a query holds (-1 before the loop), the signals emitted
\* so far, whether the UI thread has handled the signal, and the value
\* finished carries
NewThread(func, request, f, dir) ==
    [func |-> func, request |-> request, file |-> f, dir |-> dir, size |-> -1,
     signals |-> <<>>, handled |-> FALSE, result |-> NoResult]

----------------------------------------------------------------------------
(* Specification of the window with up to MaxThreads workers *)

\* workers started in one run of the program, up to here
MaxThreads == 3

\* the time of the loads
ThreadLoadTime == 1

\* the files given to upload_log_file: a missing path, a file whose reading
\* raises, a header without rows, a file with one row
LoadedFiles ==
    {[f EXCEPT !.name = nm] :
        f \in {g \in Files : \/ ~g.exists
                             \/ g.reading = "Exception"
                             \/ /\ g.reading = "ok"
                                /\ g.header = <<"msg">>
                                /\ g.rows \in {<<>>, <<<<Str(<<"a">>)>>>>}},
        nm \in {FileChar(1), FileChar(2)}}

\* the directories given to upload_log_directory: a missing one, one that
\* cannot be listed, and directories of files
Directories ==
    {NoDir, [exists |-> TRUE, readable |-> FALSE, files |-> <<>>]}
    \cup {[exists |-> TRUE, readable |-> TRUE, files |-> fs] :
            fs \in {gs \in [1..2 -> LoadedFiles] :
                       /\ gs[1].name = FileChar(1) /\ gs[2].name = FileChar(2)
                       /\ gs[1].exists /\ gs[2].exists
                       /\ gs[1].reading = "ok" /\ gs[2].rows # <<>>}}

\* the requests of run_query
Requests ==
    {NoRequest, [params |-> [DefaultParams EXCEPT !.message_text = Str(<<"a">>)], counts |-> TRUE]}

\* the entries the dict can hold, and the dicts
LoadedEntries ==
    {[name |-> f.name, frame |-> ParseLogFile(f, ThreadLoadTime).frame] :
        f \in {g \in LoadedFiles : IsLoadable(ParseLogFile(g, ThreadLoadTime).frame)}}

LogDatas ==
    {<<>>} \cup {data \in SeqsUpTo(LoadedEntries, 2) :
                    \A i, j \in 1..Len(data) : i # j => data[i].name # data[j].name}

\* the functions the workers run, on the arguments of this specification:
\* each value is computed once
ParseLogFileOn ==
    {[file |-> f, out |-> ParseLogFile(f, ThreadLoadTime)] : f \in LoadedFiles}
ParseLogDirectoryOn ==
    {[dir |-> dir, out |-> ParseLogDirectory(dir, ThreadLoadTime)] : dir \in Directories}
AnalyzeDataInThreadOn ==
    {[data |-> data, request |-> request, out |-> AnalyzeDataInThread(data, request)] :
        data \in LogDatas, request \in Requests}

InitThreads ==
    /\ threads = <<>>
    /\ active_threads = <<>>
    /\ window = "open"
    /\ clear_state = "none"
    /\ log_data = <<>>
    /\ current_results = EmptyFrame
    /\ current_summary = EmptySummary
    /\ pc = "ready"
    /\ search_params = DefaultParams
    /\ summary = EmptySummary
    /\ result = NotRun
    /\ again = NotRun
    /\ permuted = NotRun
    /\ file_index = 0
    /\ all_results = <<>>
    /\ combined = NotRun
    /\ count_request = TRUE
    /\ reordered = EmptySummary
    /\ it_used = 0
    /\ started_with = <<>>
    /\ analyzed = <<>>
    /\ ui_events = 0
    /\ VizIdle
    /\ NlpIdle
    /\ ParserIdle
    /\ RenameIdle

\* what the actions of this specification leave alone
outsideThreads ==
    <<pc, search_params, summary, result, again, permuted, file_index, all_results,
      combined, count_request, reordered, it_used, started_with, analyzed, ui_events,
      vizVars, nlpVars, parserVars, renameVars>>

\* upload_log_file with a path chosen
Threads_UploadLogFile ==
    /\ window = "open"
    /\ Len(threads) < MaxThreads
    /\ \E f \in LoadedFiles :
          /\ threads' = Append(threads, NewThread("parse_log_file", NoRequest, f, NoDir))
          /\ active_threads' = StartThread(threads, active_threads)
    /\ UNCHANGED <<window, clear_state, log_data, current_results, current_summary,
                   outsideThreads>>

\* upload_log_directory with a directory chosen
Threads_UploadLogDirectory ==
    /\ window = "open"
    /\ Len(threads) < MaxThreads
    /\ \E dir \in Directories :
          /\ threads' = Append(threads, NewThread("parse_log_directory", NoRequest, NoFile, dir))
          /\ active_threads' = StartThread(threads, active_threads)
    /\ UNCHANGED <<window, clear_state, log_data, current_results, current_summary,
                   outsideThreads>>

\* run_query with tables loaded
Threads_RunQuery ==
    /\ window = "open"
    /\ Len(threads) < MaxThreads
    /\ log_data # <<>>
    /\ \E request \in Requests :
          /\ threads' = Append(threads, NewThread("analyze_data_in_thread", request, NoFile, NoDir))
          /\ active_threads' = StartThread(threads, active_threads)
    /\ clear_state' = IF clear_state = "cleared" THEN "queried" ELSE clear_state
    /\ UNCHANGED <<window, log_data, current_results, current_summary, outsideThreads>>

\* the worker of a query reaches its loop: the iterator takes the size
Threads_WorkerBeginsLoop ==
    \E t \in 1..Len(threads) :
        /\ window # "closed"
        /\ threads[t].func = "analyze_data_in_thread"
        /\ threads[t].signals = <<>>
        /\ threads[t].size = -1
        /\ threads' = [threads EXCEPT ![t].size = Len(log_data)]
        /\ UNCHANGED <<active_threads, window, clear_state, log_data, current_results,
                       current_summary, outsideThreads>>

\* WorkerThread.run on the dict as it is: the function returns and finished
\* is emitted with its value, or it raises and error is emitted
Run(thread, data) ==
    IF thread.func = "parse_log_file"
    THEN [thread EXCEPT !.signals = <<"finished">>,
                        !.result.frame =
                            (CHOOSE e \in ParseLogFileOn : e.file = thread.file).out.frame]
    ELSE IF thread.func = "parse_log_directory"
    THEN IF thread.dir.exists /\ ~thread.dir.readable
         THEN [thread EXCEPT !.signals = <<"error">>]
         ELSE [thread EXCEPT !.signals = <<"finished">>,
                             !.result.logs_data =
                                 (CHOOSE e \in ParseLogDirectoryOn : e.dir = thread.dir).out]
    ELSE IF thread.size # Len(data)
    THEN [thread EXCEPT !.signals = <<"error">>]
    ELSE LET out == (CHOOSE e \in AnalyzeDataInThreadOn :
                        e.data = data /\ e.request = thread.request).out IN
         [thread EXCEPT !.signals = <<"finished">>,
                        !.result.frame = out.frame,
                        !.result.summary = out.summary]

\* a worker runs to its end; the worker of a query has begun its loop
Threads_WorkerRun ==
    \E t \in 1..Len(threads) :
        /\ window # "closed"
        /\ threads[t].signals = <<>>
        /\ threads[t].func = "analyze_data_in_thread" => threads[t].size # -1
        /\ threads' = [threads EXCEPT ![t] = Run(threads[t], log_data)]
        /\ UNCHANGED <<active_threads, window, clear_state, log_data, current_results,
                       current_summary, outsideThreads>>

\* the UI thread receives the signal of a worker: the slot of the function,
\* or handle_thread_error, and then cleanup_thread
Threads_HandleSignal ==
    \E t \in 1..Len(threads) :
        /\ window # "closed"
        /\ threads[t].signals # <<>>
        /\ ~threads[t].handled
        /\ threads' = [threads EXCEPT ![t].handled = TRUE]
        /\ active_threads' = CleanupThread(active_threads, t)
        /\ IF threads[t].signals[1] = "error"
           THEN UNCHANGED <<log_data, current_results, current_summary>>
           ELSE CASE threads[t].func = "parse_log_file" ->
                       /\ log_data' = ProcessLogFileResult(log_data, threads[t].file.name,
                                                           threads[t].result.frame)
                       /\ UNCHANGED <<current_results, current_summary>>
                  [] threads[t].func = "parse_log_directory" ->
                       /\ log_data' = ProcessLogDirectoryResult(log_data,
                                                                threads[t].result.logs_data, 1)
                       /\ UNCHANGED <<current_results, current_summary>>
                  [] OTHER ->
                       /\ current_results' = threads[t].result.frame
                       /\ current_summary' = threads[t].result.summary
                       /\ UNCHANGED log_data
        /\ UNCHANGED <<window, clear_state, outsideThreads>>

\* clear_logs, confirmed
Threads_ClearLogs ==
    /\ window = "open"
    /\ log_data' = <<>>
    /\ current_results' = EmptyFrame
    /\ current_summary' = EmptySummary
    /\ clear_state' = "cleared"
    /\ UNCHANGED <<threads, active_threads, window, outsideThreads>>

\* closeEvent: with workers in the list the window asks before it closes
Threads_CloseEvent ==
    /\ window = "open"
    /\ window' = IF active_threads # <<>> THEN "asking" ELSE "closed"
    /\ UNCHANGED <<threads, active_threads, clear_state, log_data, current_results,
                   current_summary, outsideThreads>>

\* the answer to the exit confirmation: Yes closes, No ignores the event
Threads_ExitReply ==
    /\ window = "asking"
    /\ \E reply \in {"Yes", "No"} : window' = IF reply = "Yes" THEN "closed" ELSE "open"
    /\ UNCHANGED <<threads, active_threads, clear_state, log_data, current_results,
                   current_summary, outsideThreads>>

\* the steps of the worker threads
WorkerStep == Threads_WorkerBeginsLoop \/ Threads_WorkerRun

NextThreads ==
    \/ Threads_UploadLogFile
    \/ Threads_UploadLogDirectory
    \/ Threads_RunQuery
    \/ Threads_WorkerBeginsLoop
    \/ Threads_WorkerRun
    \/ Threads_HandleSignal
    \/ Threads_ClearLogs
    \/ Threads_CloseEvent
    \/ Threads_ExitReply

SpecThreads == InitThreads /\ [][NextThreads]_vars

\* the operating system runs every worker thread, and the event loop of
\* the window delivers every signal; both end when the window has closed
FairSpecThreads ==
    SpecThreads /\ WF_vars(WorkerStep) /\ WF_vars(Threads_HandleSignal)

----------------------------------------------------------------------------
(* Properties of analyze *)

\* the table handed to analyze
Table == log_data[1].frame

\* the fields the request sets
SetFields(p) ==
    {f \in Fields :
        CASE f = "time_range" -> p[f].k = "dict"
          [] f = "keywords" -> Len(p[f].l) > 0
          [] OTHER -> p[f].k # "none"}

\* the request with one field back at its default
Unset(p, f) == [p EXCEPT ![f] = DefaultParams[f]]

NoLimit(p) == p.results_limit.k = "none"

\* rows is a subsequence of all: the same rows in the same relative order
IsSubsequence(rows, all) ==
    \E q \in [1..Len(rows) -> 1..Len(all)] :
        /\ \A i, j \in 1..Len(rows) : i < j => q[i] < q[j]
        /\ \A i \in 1..Len(rows) : all[q[i]] = rows[i]

\* the rows of t in which the pattern of field f occurs literally
C1_LiteralRows(t, p, f) ==
    IF f = "full_text"
    THEN SelectSeq(t.rows, LAMBDA r :
            \E c \in StringColumns(t) : LiteralContains(p[f].s, ToStr(r[c]), p.case_sensitive))
    ELSE IF ColumnOf(f) \in t.columns
         THEN SelectSeq(t.rows, LAMBDA r :
                 LiteralContains(p[f].s, ToStr(r[ColumnOf(f)]), p.case_sensitive))
         ELSE t.rows

\* C1: with use_regex set and a pattern that is not a valid regular
\* expression in a substring/regex field, analyze does not raise and returns
\* exactly the rows a literal substring match of the pattern retains.
C1_InvalidRegexFallsBackToLiteral ==
    \A f \in PatternFields :
        (/\ pc = "analyzed"
         /\ SetFields(search_params) = {f}
         /\ search_params.use_regex
         /\ ~ValidRegex(search_params[f].s)
         /\ NoLimit(search_params))
        => /\ ~result.raised
           /\ result.frame.rows = C1_LiteralRows(Table, search_params, f)

\* a timestamp is inside the range: not null, not before start, not after end
C2_InRange(cell, tr) ==
    /\ cell.k = "time"
    /\ tr.start.k # "none" => tr.start.n <= cell.n
    /\ tr.end.k # "none" => cell.n <= tr.end.n

\* the time predicate is active: a start or an end is given
C2_Bounded(tr) == tr.k = "dict" /\ (tr.start.k # "none" \/ tr.end.k # "none")

\* C2: with a start and/or an end and a time column, a row is retained iff
\* its timestamp is non-null and start <= timestamp <= end, both bounds
\* inclusive; with neither bound, rows with a null timestamp are retained.
C2_TimeRangeInclusive ==
    (pc = "analyzed" /\ ~result.raised /\ "timestamp" \in Table.columns)
    => LET tr == search_params.time_range
           others == Analyze(Table, Unset(search_params, "time_range"))
       IN /\ C2_Bounded(tr) =>
                \A i \in 1..Len(result.frame.rows) :
                    C2_InRange(result.frame.rows[i]["timestamp"], tr)
          /\ (SetFields(search_params) \subseteq {"time_range"} /\ NoLimit(search_params)) =>
                result.frame.rows =
                    IF C2_Bounded(tr)
                    THEN SelectSeq(Table.rows, LAMBDA r : C2_InRange(r["timestamp"], tr))
                    ELSE Table.rows
          /\ NoLimit(search_params) =>
                result.frame.rows =
                    IF C2_Bounded(tr)
                    THEN SelectSeq(others.frame.rows, LAMBDA r : C2_InRange(r["timestamp"], tr))
                    ELSE others.frame.rows

\* a table with a row at start, a row at end and a row without timestamp:
\* the two boundary rows are retained, the null row is not
C2_Witness ==
    /\ pc = "analyzed"
    /\ "timestamp" \in Table.columns
    /\ search_params.time_range = TimeRange(Time(1), Time(2))
    /\ Len(Table.rows) = 3
    /\ Table.rows[1]["timestamp"] = Time(1)
    /\ Table.rows[2]["timestamp"] = Null
    /\ Table.rows[3]["timestamp"] = Time(2)
    /\ result.frame.rows = <<Table.rows[1], Table.rows[3]>>

\* a cell equals the value of the request as a case-insensitive string, or
\* is a member of it when it is a list
C3_Matches(cell, value) ==
    IF value.k = "list"
    THEN \E i \in 1..Len(value.l) : Upper(ToStr(cell)) = Upper(ToStr(value.l[i]))
    ELSE Upper(ToStr(cell)) = Upper(ToStr(value))

\* C3: for each exact-match field (action, protocol, severity, log_type)
\* whose column is present, a row is retained iff its value equals the
\* value of the request case-insensitively, or is a member of the list.
C3_ExactMatchCaseInsensitive ==
    \A f \in {"action", "protocol", "severity", "log_type"} :
        (/\ pc = "analyzed"
         /\ SetFields(search_params) = {f}
         /\ NoLimit(search_params)
         /\ f \in Table.columns)
        => /\ ~result.raised
           /\ result.frame.rows =
                SelectSeq(Table.rows, LAMBDA r : C3_Matches(r[f], search_params[f]))

\* C4: with a non-empty keywords list, a row is retained iff at least one
\* string column of the row contains at least one of the keywords.
C4_KeywordsAreOred ==
    (/\ pc = "analyzed"
     /\ SetFields(search_params) = {"keywords"}
     /\ "message" \in Table.columns
     /\ NoLimit(search_params))
    => /\ ~result.raised
       /\ result.frame.rows =
            SelectSeq(Table.rows, LAMBDA r :
                \E c \in StringColumns(Table) :
                    \E i \in 1..Len(search_params.keywords.l) :
                        LiteralContains(search_params.keywords.l[i].s, ToStr(r[c]), FALSE))

\* a pattern occurs in a string, by the flags of the request
C5_Found(pat, str, p) ==
    IF p.use_regex THEN RegexSearch(pat, str, ~p.case_sensitive)
    ELSE LiteralContains(pat, str, p.case_sensitive)

\* a row satisfies every active predicate of the request
C5_RowPasses(r, t, p) ==
    /\ (C2_Bounded(p.time_range) /\ "timestamp" \in t.columns) =>
            C2_InRange(r["timestamp"], p.time_range)
    /\ (p.severity.k # "none" /\ "severity" \in t.columns) =>
            IF p.severity.k = "list"
            THEN \E i \in 1..Len(p.severity.l) : ToStr(r["severity"]) = ToStr(p.severity.l[i])
            ELSE ToStr(r["severity"]) = ToStr(p.severity)
    /\ \A f \in {"action", "protocol"} :
            (p[f].k # "none" /\ f \in t.columns) => C3_Matches(r[f], p[f])
    /\ \A f \in {"src_port", "dst_port"} :
            (p[f].k # "none" /\ f \in t.columns) => ToStr(r[f]) = ToStr(p[f])
    /\ \A f \in PatternFields \ {"full_text"} :
            (p[f].k # "none" /\ ColumnOf(f) \in t.columns) =>
                C5_Found(p[f].s, ToStr(r[ColumnOf(f)]), p)
    /\ p.full_text.k # "none" =>
            \E c \in StringColumns(t) : C5_Found(p.full_text.s, ToStr(r[c]), p)

\* the first n elements of a sequence, all of it when it has at most n
C5_FirstRows(rows, n) == SubSeq(rows, 1, IF Len(rows) <= n THEN Len(rows) ELSE n)

\* C5: results_limit is applied after every predicate: the result is the
\* first results_limit rows, in table order, of the rows that satisfy all
\* active predicates, and all of them when results_limit is unset.
C5_LimitAfterPredicates ==
    (pc = "analyzed" /\ ~result.raised)
    => LET passing == SelectSeq(Table.rows, LAMBDA r : C5_RowPasses(r, Table, search_params))
       IN result.frame.rows =
            IF NoLimit(search_params) THEN passing
            ELSE C5_FirstRows(passing, search_params.results_limit.n)

\* three rows of which the first fails a predicate and the other two pass,
\* and a limit of 1: the result is the second row
C5_Witness ==
    /\ pc = "analyzed"
    /\ ~result.raised
    /\ search_params.results_limit = IntV(1)
    /\ Len(Table.rows) = 3
    /\ ~C5_RowPasses(Table.rows[1], Table, search_params)
    /\ C5_RowPasses(Table.rows[2], Table, search_params)
    /\ C5_RowPasses(Table.rows[3], Table, search_params)
    /\ result.frame.rows = <<Table.rows[2]>>

\* C7: a predicate that refers to a column absent from the table is a
\* no-op: the outcome of analyze (returned rows, or an exception) is the
\* outcome of the request with that predicate unset.
C7_AbsentColumnIsNoOp ==
    pc = "analyzed"
    => \A f \in FilterFields \ {"full_text"} :
          (f \in SetFields(search_params) /\ ColumnOf(f) \notin Table.columns)
          => LET without == Analyze(Table, Unset(search_params, f))
             IN /\ result.raised = without.raised
                /\ result.frame.rows = without.frame.rows

\* a request whose only pattern is malformed, with use_regex set, on a table
\* without that column: nothing raises and every row is returned
C7_Witness ==
    /\ pc = "analyzed"
    /\ SetFields(search_params) = {"hostname"}
    /\ search_params.use_regex
    /\ ~ValidRegex(search_params.hostname.s)
    /\ "hostname" \notin Table.columns
    /\ Len(Table.rows) = 2
    /\ ~result.raised
    /\ result.frame.rows = Table.rows

\* C8: filtering is idempotent: analyze on the result of analyze, with the
\* same request (results_limit included), returns the same rows in the
\* same order.
C8_Idempotent ==
    pc = "reanalyzed" => (~again.raised /\ again.frame.rows = result.frame.rows)

\* a request with a predicate and a limit that removed rows, applied again
\* to its own non-empty result
C8_Witness ==
    /\ pc = "reanalyzed"
    /\ search_params.results_limit = IntV(1)
    /\ SetFields(search_params) # {}
    /\ Len(Table.rows) = 3
    /\ ~C5_RowPasses(Table.rows[1], Table, search_params)
    /\ Len(result.frame.rows) = 1
    /\ again.frame.rows = <<Table.rows[2]>>

\* C9: the predicates commute: applied in any order, with results_limit
\* last, they give the outcome of the order analyze uses.
C9_Commutative ==
    pc = "permuted"
    => /\ permuted.raised = result.raised
       /\ permuted.frame.rows = result.frame.rows

\* two set predicates of which each removes a row the other keeps
C9_Witness ==
    /\ pc = "permuted"
    /\ ~result.raised
    /\ Cardinality(ActiveFilters(search_params)) = 2
    /\ Len(Table.rows) = 2
    /\ \E f, g \in ActiveFilters(search_params) :
          /\ f # g
          /\ Analyze(Table, Unset(search_params, f)).frame.rows = <<Table.rows[1]>>
          /\ Analyze(Table, Unset(search_params, g)).frame.rows = <<Table.rows[2]>>
    /\ permuted.frame.rows = <<>>

\* C10: every row of the result is a row of the table and the rows keep
\* the table's relative order, so the result is no longer than the table.
C10_SubsequenceOfInput ==
    (pc = "analyzed" /\ ~result.raised)
    => /\ IsSubsequence(result.frame.rows, Table.rows)
       /\ Len(result.frame.rows) <= Len(Table.rows)

\* three distinct rows of which the middle one is removed
C10_Witness ==
    /\ pc = "analyzed"
    /\ ~result.raised
    /\ Len(Table.rows) = 3
    /\ Cardinality({Table.rows[i] : i \in 1..3}) = 3
    /\ result.frame.rows = <<Table.rows[1], Table.rows[3]>>

----------------------------------------------------------------------------
(* Properties of the multi-file query *)

\* the filtered table of the i-th loaded file is kept
C6_Survives(i) ==
    LET outcome == Analyze(log_data[i].frame, search_params)
    IN ~outcome.raised /\ Len(outcome.frame.rows) > 0

\* the rows of the kept filtered tables from file i on, file after file
RECURSIVE C6_RowsFrom(_)
C6_RowsFrom(i) ==
    IF i > Len(log_data) THEN <<>>
    ELSE (IF C6_Survives(i) THEN Analyze(log_data[i].frame, search_params).frame.rows ELSE <<>>)
         \o C6_RowsFrom(i + 1)

\* a cell of the combined table is the cell of the filtered table, an
\* integer possibly shown as a float
C6_SameCell(a, b) == a = b \/ (a.k = "float" /\ b.k = "int" /\ a.n = b.n)

\* C6: the query filters each loaded table by itself with the same
\* request, drops the tables whose filtered result is empty, and returns
\* the kept filtered tables concatenated in the order of the loaded
\* tables, the rows of each table in their order.
C6_ConcatenatesSurvivorsInOrder ==
    pc = "done"
    => LET expected == C6_RowsFrom(1)
           rows == combined.frame.rows
       IN /\ ~combined.raised
          /\ Len(rows) = Len(expected)
          /\ combined.frame.columns =
                UNION {log_data[i].frame.columns : i \in {j \in 1..Len(log_data) : C6_Survives(j)}}
          /\ \A k \in 1..Len(rows) :
                /\ \A c \in DOMAIN expected[k] : C6_SameCell(rows[k][c], expected[k][c])
                /\ \A c \in combined.frame.columns \ DOMAIN expected[k] : rows[k][c] = Null

\* three loaded tables of which the second filters to empty: the result is
\* the rows of the first followed by the rows of the third
C6_Witness ==
    /\ pc = "done"
    /\ Len(log_data) = 3
    /\ C6_Survives(1) /\ ~C6_Survives(2) /\ C6_Survives(3)
    /\ ~Analyze(log_data[2].frame, search_params).raised
    /\ Len(log_data[1].frame.rows) = 2
    /\ Len(combined.frame.rows) = 2
    /\ combined.frame.rows[1]["source_file"] = Str(<<"0">>)
    /\ combined.frame.rows[2]["source_file"] = Str(<<"2">>)

----------------------------------------------------------------------------
(* Properties of the summary *)

\* C11: the summary delivered with the result set of a query, a query that
\* matches no row included, has total_logs equal to the number of rows of
\* that result set.
C11_TotalLogsIsRowCount ==
    pc = "done"
    => /\ "total_logs" \in summary.keys
       /\ summary.total_logs = Len(combined.frame.rows)

\* C12: summarizing an empty result set yields a fully defined zero-valued
\* summary: total_logs is 0, time_span_hours is present and 0, and no
\* distribution has an entry.
C12_EmptySummaryIsZeroValued ==
    (pc = "summarized" /\ Len(current_results.rows) = 0)
    => /\ "total_logs" \in summary.keys
       /\ summary.total_logs = 0
       /\ "time_span_hours" \in summary.keys
       /\ summary.time_span_hours.num = 0
       /\ \A t \in TableKeys : summary.tables[t] = {}

\* C13: generate_summary is order-independent: on every reordering of the
\* same rows it returns the same summary, the values and counts of the
\* top-10 tables included.
C13_SummaryIsOrderIndependent ==
    pc = "reordered" => reordered = summary

----------------------------------------------------------------------------
(* Properties of the visualizer *)

\* C14: optimize_dataframe_for_visualization returns at most max_points rows
\* of a table of more than max_points rows, whether or not the table has a
\* usable time column, and returns a table of at most max_points rows with
\* all its rows.
C14_OptimizeBoundsRows ==
    pc = "optimized"
    => /\ viz_results.rows > max_points => optimized <= max_points
       /\ viz_results.rows <= max_points => optimized = viz_results.rows

\* C15: generate_visualization leaves the summary it was handed as it was,
\* whatever the kind of visualization and the size of the result.
C15_VisualizationLeavesSummary == [][DoVisualize => summary' = summary]_vars

\* a trend was drawn from a decimated table, with a summary that has a time
\* span and counts every row of the result
C15_Witness ==
    /\ pc = "visualized"
    /\ visualization.chart = "trend"
    /\ visualization.points < viz_results.rows
    /\ "time_span_hours" \in summary.keys
    /\ summary.total_logs = viz_results.rows

----------------------------------------------------------------------------
(* Properties of the typed query *)

\* the number a run of digits spells, leading zeros allowed
AmountSpelled(d) ==
    CHOOSE n \in 0..MaxAmount :
        \E z \in 0..Len(d) : d = [i \in 1..z |-> "0"] \o Digits(n)

\* the length of a unit in minutes, a month being 30 days
UnitMinutes(unit) ==
    CASE unit = "minute" -> 1
      [] unit = "hour" -> 60
      [] unit = "day" -> 1440
      [] unit = "week" -> 10080
      [] OTHER -> 43200

\* C16: for a query that contains "last N <unit>", process_query returns a
\* time range whose start is the reference time minus N units and whose end
\* is the reference time, both UTC-aware.
C16_LastNUnits ==
    LET q == LowerQuery(query) IN
    (pc # "ready" /\ LastMatches(q) # {})
    => LET i == MinOf(LastMatches(q))
           delta == AmountSpelled(q[i + 1].d) * UnitMinutes(UnitOf(q[i + 2].w))
       IN  /\ ~time_info.raised
           /\ time_info.start = [n |-> now - delta, tz |-> "UTC"]
           /\ time_info.end = [n |-> now, tz |-> "UTC"]

\* the rows of a table with the given timestamp
RowsAt(rows, t) == {i \in 1..Len(rows) : rows[i]["timestamp"] = Time(t)}

\* C17: the time range of a "yesterday" query, applied by analyze, keeps a
\* row stamped at midnight UTC of yesterday and drops a row stamped at
\* midnight UTC of today.
C17_YesterdayIsHalfOpen ==
    (pc = "filtered" /\ TimeBranch(LowerQuery(query)) = "yesterday")
    => LET today == DayOf(now) * 1440
           kept == result.frame.rows
       IN  /\ RowsAt(kept, today) = {}
           /\ RowsAt(log_data[1].frame.rows, today - 1440) # {}
                 => RowsAt(kept, today - 1440) # {}

----------------------------------------------------------------------------
(* Properties of the parser *)

\* C18: the table parse_log_file returns for a file in which no time column
\* is detected has no timestamp column, and a time predicate applied to it
\* afterwards keeps every row.
C18_NoTimeColumnNoTimestamp ==
    (/\ pc \in {"loaded", "filtered"}
     /\ file.exists /\ file.reading = "ok"
     /\ FindTimeColumn(StandardizeColumnNames(file.header, file.rows)) = "")
    => /\ "timestamp" \notin parsed.frame.columns
       /\ pc = "filtered" => Len(result.frame.rows) = Len(parsed.frame.rows)

\* C19: parse_log_file never raises; a missing path gives a failure tagged
\* as file not found, a file of zero rows gives an empty outcome that is
\* not a failure, and any other problem of reading gives a tagged failure.
C19_ParseNeverRaises ==
    pc \in {"loaded", "filtered"}
    => /\ ~parsed.raised
       /\ ~file.exists
            => /\ IsFailure(parsed.frame)
               /\ parsed.frame.rows[1]["error"] = Str(<<"File not found">>)
       /\ (file.exists /\ file.reading # "Exception" /\ Len(file.rows) = 0)
            => /\ IsEmpty(parsed.frame)
               /\ ~IsFailure(parsed.frame)
       /\ (file.exists /\ file.reading = "Exception")
            => /\ IsFailure(parsed.frame)
               /\ parsed.frame.rows[1]["error"] = Str(<<"Parsing failed">>)

----------------------------------------------------------------------------
(* Properties of the query under concurrent changes *)

\* C20: a query on the worker filters exactly the tables that were loaded
\* when it was started, and does not fail, whatever file loads complete
\* and whatever clear_logs does in the UI thread while it runs.
C20_QuerySharesNoState ==
    /\ pc # "error"
    /\ pc \in {"returned", "shown"} => analyzed = started_with

----------------------------------------------------------------------------
(* Further properties of the multi-file query *)

\* the rows every loaded table contributes when its filtering returns
RECURSIVE C21_AllFilteredRows(_)
C21_AllFilteredRows(i) ==
    IF i > Len(log_data) THEN <<>>
    ELSE Analyze(log_data[i].frame, search_params).frame.rows \o C21_AllFilteredRows(i + 1)

\* C21: the query returns the filtered rows of every loaded table, or a
\* tagged failure; when the filtering of a table raised, it does not return
\* a combined result without the rows of that table.
C21_QueryIsAtomic ==
    pc = "done"
    => IF \E i \in 1..Len(log_data) : Analyze(log_data[i].frame, search_params).raised
       THEN combined.raised
       ELSE /\ ~combined.raised
            /\ Len(combined.frame.rows) = Len(C21_AllFilteredRows(1))

\* C29: with results_limit = L the combined result of a query over the
\* loaded tables has at most L rows in total.
C29_LimitBoundsCombinedResult ==
    (pc = "done" /\ search_params.results_limit.k = "int")
    => Len(combined.frame.rows) <= search_params.results_limit.n

----------------------------------------------------------------------------
(* Further properties of the visualizer *)

\* C22: the automatic choice is trend for a table with a usable time column
\* and more than 5 rows; otherwise bar for a table with a low-cardinality
\* categorical column and more than 3 rows; otherwise summary for more than
\* 50 rows; otherwise table.  A categorical column that is present but not
\* low-cardinality does not select bar.
C22_AutoResolution ==
    LET res == viz_results IN
    DetermineBestVisualization(res) =
        IF res.has_time /\ res.rows > 5 THEN "trend"
        ELSE IF res.low_cardinality /\ res.rows > 3 THEN "bar"
        ELSE IF res.rows > 50 THEN "summary"
        ELSE "table"

\* C23: a pie or bar request charts the first candidate column with two
\* distinct values or more; without such a column it gives the hour-of-day
\* bar chart when the table has time data and the message of insufficient
\* data otherwise, for pie and bar alike.
C23_PieBarFallback ==
    (pc = "visualized" /\ viz_type \in {"pie", "bar"} /\ viz_results.rows > 0)
    => visualization =
          IF viz_results.charted
          THEN [type |-> "plotly", chart |-> viz_type, points |-> viz_results.rows, freq |-> ""]
          ELSE IF viz_results.has_time
          THEN [type |-> "plotly", chart |-> "bar_hours", points |-> viz_results.rows, freq |-> ""]
          ELSE [type |-> "table", chart |-> "message", points |-> 0, freq |-> ""]
----------------------------------------------------------------------------
(* Properties of the renaming of the columns *)

\* the names of the columns, in their order
NamesIn(columns) == [i \in 1..Len(columns) |-> columns[i].name]

\* whether a column has the name
HasName(columns, name) == \E i \in 1..Len(columns) : columns[i].name = name

\* C24: a column eventtime ends with the timestamp role, and a table with
\* the columns source_port and source_ip ends with both src_port and src_ip
\* assigned, whatever the order of the columns; a column that holds no word
\* of common_headers keeps its name.
C24_RolesReachTheirColumns ==
    (pc = "renamed" /\ ~renamed.raised)
    => /\ \A i \in 1..Len(df_columns) :
             df_columns[i].name = <<"e", "v", "e", "n", "t", "t", "i", "m", "e">> => renamed.columns[i].name = Name_timestamp
       /\ (HasName(df_columns, <<"s", "o", "u", "r", "c", "e", "_", "p", "o", "r", "t">>) /\ HasName(df_columns, <<"s", "o", "u", "r", "c", "e", "_", "i", "p">>))
             => (HasName(renamed.columns, Name_src_port) /\ HasName(renamed.columns, Name_src_ip))
       /\ \A i \in 1..Len(df_columns) :
             (df_columns[i].name = <<"n", "o", "t", "e">> /\ ~df_columns[i].datelike)
                => renamed.columns[i].name = <<"n", "o", "t", "e">>

\* C28: after _standardize_column_names no two columns of the table have
\* the same name, whatever the names of the columns were.
C28_NoDuplicateColumnNames ==
    (pc = "renamed" /\ ~renamed.raised)
    => \A i, j \in 1..Len(renamed.columns) :
          i # j => renamed.columns[i].name # renamed.columns[j].name

----------------------------------------------------------------------------
(* Properties of the window and its workers *)

\* the queries among the workers
QueryThreads == {t \in 1..Len(threads) : threads[t].func = "analyze_data_in_thread"}

\* C25: after clear_logs was confirmed, current_results and current_summary
\* stay empty until a new query is started: a query started before the clear
\* that finishes after it does not set them again.
C25_ClearedResultsStayEmpty ==
    clear_state = "cleared"
    => (current_results = EmptyFrame /\ current_summary = EmptySummary)

\* C26: when two queries or more were started and every one of them has
\* finished and was handled, current_results and current_summary are what
\* the query started last returned, whatever the order they finished in.
C26_LastStartedQueryWins ==
    (/\ clear_state = "none"
     /\ Cardinality(QueryThreads) >= 2
     /\ \A t \in QueryThreads : threads[t].handled /\ threads[t].signals = <<"finished">>)
    => /\ current_results = threads[MaxOf(QueryThreads)].result.frame
       /\ current_summary = threads[MaxOf(QueryThreads)].result.summary

\* the positions held by active_threads
ActiveSet == {active_threads[i] : i \in 1..Len(active_threads)}

\* every worker has emitted its signal
AllEmitted == \A t \in 1..Len(threads) : Len(threads[t].signals) = 1

\* C27: a worker emits one signal at most, finished or error, and a worker
\* whose signal was handled is not in active_threads; closeEvent with an
\* empty active_threads closes the window without asking; and, unless the
\* window is closed before, every worker comes to emit its signal and
\* active_threads comes to be empty for good.
C27_WorkersEndAndLeave ==
    /\ [](\A t \in 1..Len(threads) :
             /\ Len(threads[t].signals) <= 1
             /\ threads[t].handled => (Len(threads[t].signals) = 1 /\ t \notin ActiveSet))
    /\ [][(Threads_CloseEvent /\ active_threads = <<>>) => window' = "closed"]_vars
    /\ (<>(window = "closed") \/ <>[](AllEmitted /\ active_threads = <<>>))

\* a window closed with nothing left in active_threads, after a worker that
\* ended by finished and one that ended by error were handled
C27_Witness ==
    /\ window = "closed"
    /\ active_threads = <<>>
    /\ \E t \in 1..Len(threads) : threads[t].handled /\ threads[t].signals = <<"finished">>
    /\ \E t \in 1..Len(threads) : threads[t].handled /\ threads[t].signals = <<"error">>

\* a table that is not empty and has no error column
C30_Kept(df) == df.columns # {} /\ Len(df.rows) > 0 /\ "error" \notin df.columns

\* the entry of a name in the dict
C30_Entry(data, name) == {data[i].frame : i \in {j \in 1..Len(data) : data[j].name = name}}

\* C30: after any sequence of single-file loads, directory loads and
\* clears, every table in log_data is non-empty and has no error column; the
\* result of a failed or empty parse does not enter log_data, and the
\* handling of a load changes the tables of no other file name.
C30_LogDataHoldsParsedTables ==
    [][/\ \A i \in 1..Len(log_data') : C30_Kept(log_data'[i].frame)
       /\ \A t \in 1..Len(threads) :
             (/\ threads[t].func = "parse_log_file"
              /\ ~threads[t].handled
              /\ threads'[t].handled)
             => /\ ~C30_Kept(threads[t].result.frame) => log_data' = log_data
                /\ \A nm \in NamesOf(log_data) \ {threads[t].file.name} :
                      C30_Entry(log_data', nm) = C30_Entry(log_data, nm)
       /\ \A t \in 1..Len(threads) :
             (/\ threads[t].func = "parse_log_directory"
              /\ ~threads[t].handled
              /\ threads'[t].handled)
             => \A nm \in NamesOf(log_data) :
                   \/ C30_Entry(log_data', nm) = C30_Entry(log_data, nm)
                   \/ \E i \in 1..Len(threads[t].dir.files) :
                         /\ threads[t].dir.files[i].name = nm
                         /\ C30_Kept(ParseLogFile(threads[t].dir.files[i], ThreadLoadTime).frame)
      ]_vars

\* a table is loaded, and the results of a missing file and of a directory
\* with a file whose reading failed were handled after it
C30_Witness ==
    /\ log_data # <<>>
    /\ \E t \in 1..Len(threads) :
          /\ threads[t].func = "parse_log_file"
          /\ threads[t].handled
          /\ "error" \in threads[t].result.frame.columns
    /\ \E t \in 1..Len(threads) :
          /\ threads[t].func = "parse_log_directory"
          /\ threads[t].handled
          /\ Len(threads[t].result.logs_data.tables) < Len(threads[t].dir.files)

====
